---------------------------- MODULE Spec2Model ----------------------------
(***************************************************************************)
(* A model of the neighbor-list-to-batch conversion of the PET             *)
(* architecture (systems_to_batch_dict.py) and of the gradient-aware       *)
(* model evaluation (evaluate_model.py).                                   *)
(*                                                                         *)
(* Tensors are sequences.  Atom indices, slot indices and species          *)
(* positions keep the 0-based values of the code; the element with 0-based *)
(* index i of a tensor t is t[i + 1].                                      *)
(***************************************************************************)
EXTENDS Integers, Sequences, FiniteSets, TLC

(***************************************************************************)
(* Bounds of the model.                                                    *)
(***************************************************************************)
\* atoms of the system handed to the per-system batchers
MaxAtoms == 3
\* undirected edges a neighbor list is generated from
MaxEdges == 2
\* slots of padding the caller's max_num_neighbors may exceed the system's own
MaxExtraPad == 1
\* systems in the list handed to systems_to_batch_dict
MaxSystems == 3
\* atoms of one system of that list
MaxChainAtoms == 6

(***************************************************************************)
(* Generic tensor helpers.                                                 *)
(***************************************************************************)
Range(s) == {s[p] : p \in DOMAIN s}

MaxOf(S) == CHOOSE x \in S : \A y \in S : y <= x

RECURSIVE SortedSeq(_)
\* the elements of a finite set of integers, ascending
SortedSeq(S) ==
    IF S = {} THEN <<>>
    ELSE LET m == CHOOSE x \in S : \A y \in S : x <= y
         IN  <<m>> \o SortedSeq(S \ {m})

RECURSIVE SumSeq(_)
SumSeq(s) == IF s = <<>> THEN 0 ELSE s[1] + SumSeq(Tail(s))

\* torch.unique(xs): the distinct values of xs, sorted ascending
unique(xs) == SortedSeq(Range(xs))

\* the counts torch.unique(xs, return_counts=True) returns beside unique(xs)
unique_counts(xs) ==
    LET u == unique(xs)
    IN  [r \in 1..Len(u) |-> Cardinality({p \in DOMAIN xs : xs[p] = u[r]})]

RECURSIVE SortPositions(_, _)
SortPositions(xs, S) ==
    IF S = {} THEN <<>>
    ELSE LET m == CHOOSE p \in S : \A q \in S \ {p} :
                      xs[p] < xs[q] \/ (xs[p] = xs[q] /\ p < q)
         IN  <<m>> \o SortPositions(xs, S \ {m})

RECURSIVE SortPositionsLastFirst(_, _)
SortPositionsLastFirst(xs, S) ==
    IF S = {} THEN <<>>
    ELSE LET m == CHOOSE p \in S : \A q \in S \ {p} :
                      xs[p] < xs[q] \/ (xs[p] = xs[q] /\ p > q)
         IN  <<m>> \o SortPositionsLastFirst(xs, S \ {m})

\* an argsort that puts equal keys in reverse order
argsort_reversing_ties(xs) == SortPositionsLastFirst(xs, DOMAIN xs)

\* torch.argsort(xs, stable=True), as positions of xs
argsort_stable(xs) == SortPositions(xs, DOMAIN xs)

\* xs[index] for an index tensor of positions
Gather(xs, index) == [p \in 1..Len(index) |-> xs[index[p]]]

\* cumsum(0) of counts with a leading 0: cum[r] is the start of segment r
CumSum(counts) == [r \in 1..(Len(counts) + 1) |-> SumSeq(SubSeq(counts, 1, r - 1))]

ZeroShift == <<0, 0, 0>>
NegShift(S) == <<0 - S[1], 0 - S[2], 0 - S[3]>>

(***************************************************************************)
(* The species vocabulary and the values an uninitialised int64 entry of   *)
(* torch.empty may hold.                                                   *)
(***************************************************************************)
all_species == <<1, 8>>
Uninitialized == {0, 7}

(***************************************************************************)
(* A system: its atom types, the pair records of its neighbor list in the  *)
(* order the list stores them, and the selected atoms.  A pair record is   *)
(* [first_atom, second_atom, cell_shift, value]; value stands for the      *)
(* displacement vector nl.values[:, :, 0] of the record.                   *)
(***************************************************************************)
i_list_of(system) == [p \in DOMAIN system.pairs |-> system.pairs[p].first_atom]
j_list_of(system) == [p \in DOMAIN system.pairs |-> system.pairs[p].second_atom]
S_list_of(system) == [p \in DOMAIN system.pairs |-> system.pairs[p].cell_shift]
D_list_of(system) == [p \in DOMAIN system.pairs |-> system.pairs[p].value]

\* unique_index of get_system_batch_dict: the sorted union of the selected
\* atoms and the centres of the neighbor list
unique_index_of(system) ==
    unique(system.selected_atoms_index \o unique(i_list_of(system)))

\* the entries of index_map that index_map[unique_index] = arange leaves unset
Holes(unique_index) ==
    IF unique_index = <<>> THEN {}
    ELSE (0..MaxOf(Range(unique_index))) \ Range(unique_index)

\* remap_to_contiguous_indexing with a given index_map size
RemapWithSize(i_list, j_list, unique_neighbors_index, unique_index, uninit, size) ==
    LET index_map == [x \in 0..(size - 1) |->
                        IF x \in Range(unique_index)
                        THEN (CHOOSE r \in DOMAIN unique_index : unique_index[r] = x) - 1
                        ELSE uninit[x]]
        InSpan(xs) == \A p \in DOMAIN xs : xs[p] \in 0..(size - 1)
    IN  IF ~(InSpan(unique_index) /\ InSpan(i_list) /\ InSpan(j_list)
             /\ InSpan(unique_neighbors_index))
        THEN [status |-> "IndexError"]
        ELSE [status |-> "ok",
              \* the entries line 193 assigns (the table is local to the function)
              index_map |-> [x \in Range(unique_index) |-> index_map[x]],
              i_list |-> [p \in DOMAIN i_list |-> index_map[i_list[p]]],
              j_list |-> [p \in DOMAIN j_list |-> index_map[j_list[p]]],
              unique_neighbors_index |->
                  [p \in DOMAIN unique_neighbors_index |->
                      index_map[unique_neighbors_index[p]]]]

\* the table is one entry short: max(original_index) entries
remap_table_too_short(i_list, j_list, unique_neighbors_index, unique_index, uninit) ==
    IF unique_index = <<>> THEN [status |-> "RuntimeError"]
    ELSE RemapWithSize(i_list, j_list, unique_neighbors_index, unique_index,
                       uninit, MaxOf(Range(unique_index)))

\* uninit: the content of the entries of torch.empty that are never assigned
remap_to_contiguous_indexing(i_list, j_list, unique_neighbors_index, unique_index, uninit) ==
    IF unique_index = <<>> THEN [status |-> "RuntimeError"]   \* max() of an empty tensor
    ELSE RemapWithSize(i_list, j_list, unique_neighbors_index, unique_index,
                       uninit, MaxOf(Range(unique_index)) + 1)

\* torch.where(condition) of a 2-D condition with ncols columns: T is the set
\* of the <<row, column>> entries that are True; the result lists them in
\* row-major order
Where(T, ncols) ==
    LET codes == SortedSeq({t[1] * ncols + t[2] : t \in T})
    IN  [index_1 |-> [p \in DOMAIN codes |-> codes[p] \div ncols],
         index_2 |-> [p \in DOMAIN codes |-> codes[p] % ncols]]

\* get_central_species: the vocabulary has no repeated entry, so the keys
\* tmp_index_2 of the argsort are distinct
get_central_species(types, unique_index) ==
    LET species == [p \in DOMAIN unique_index |-> types[unique_index[p] + 1]]
        w == Where({<<a, b>> \in (0..(Len(all_species) - 1)) \X (0..(Len(species) - 1)) :
                       all_species[a + 1] = species[b + 1]}, Len(species))
        index == argsort_stable(w.index_2)
    IN  Gather(w.index_1, index)

\* a row of max_num zeros
Zeros(max_num) == [k \in 1..max_num |-> 0]

\* the rows of a padded tensor written by the loop
\*   for j, count in enumerate(counts): t[j, :count] = xs[cum_sum[j]:cum_sum[j+1]]
\* over a tensor of n_rows rows of pad
FillRows(xs, counts, n_rows, max_num, pad) ==
    LET cum_sum == CumSum(counts)
    IN  [a \in 1..n_rows |->
            [k \in 1..max_num |->
                IF a <= Len(counts) /\ k <= counts[a] THEN xs[cum_sum[a] + k] ELSE pad]]

\* the reverse pointers of row j (0-based) of get_system_batch_dict_old:
\* [status, row]
ReversedRow(neighbors_index, neighbors_shifts, number_of_neighbors, j, max_num) ==
    LET slots == 0..(max_num - 1)
        T == {t \in slots \X slots :
                LET n == neighbors_index[j + 1][t[1] + 1]
                IN  /\ neighbors_index[n + 1][t[2] + 1] = j
                    /\ neighbors_shifts[n + 1][t[2] + 1]
                          = NegShift(neighbors_shifts[j + 1][t[1] + 1])}
        w == Where(T, max_num)
        nn == number_of_neighbors[j + 1]
    IN  IF Len(w.index_1) = 0 THEN [status |-> "ok", row |-> Zeros(max_num)]
        ELSE LET counts == unique_counts(w.index_1)
                 cum_sum == CumSum(counts)
                 firsts == [r \in DOMAIN counts |-> w.index_2[cum_sum[r] + 1]]
                 taken == SubSeq(firsts, 1, IF nn < Len(firsts) THEN nn ELSE Len(firsts))
             IN  IF Len(taken) = nn
                 THEN [status |-> "ok",
                       row |-> [k \in 1..max_num |-> IF k <= nn THEN taken[k] ELSE 0]]
                 ELSE IF Len(taken) = 1
                 THEN [status |-> "ok",      \* a one-element value is broadcast
                       row |-> [k \in 1..max_num |-> IF k <= nn THEN taken[1] ELSE 0]]
                 ELSE [status |-> "RuntimeError"]   \* shape mismatch

\* x[idx] for every entry idx of a padded index tensor
Index2(x, index_rows) ==
    [a \in DOMAIN index_rows |-> [k \in DOMAIN index_rows[a] |-> x[index_rows[a][k] + 1]]]

\* every entry of a padded index tensor is a valid index of a tensor of n rows
ValidIndex(index_rows, n) ==
    \A a \in DOMAIN index_rows : \A k \in DOMAIN index_rows[a] :
        index_rows[a][k] \in 0..(n - 1)

\* lines 215-230: the index arrays both batchers hand to the remapper
RemapOfSystem(system, uninit) ==
    remap_to_contiguous_indexing(i_list_of(system), j_list_of(system),
                                 unique(i_list_of(system)),
                                 unique_index_of(system), uninit)

\* lines 231-247 and 332-343: the pair records ordered by the stable
\* argsort of the remapped first atoms
sort_pairs(i_list, j_list, S_list, D_list) ==
    LET index == argsort_stable(i_list)
    IN  [i_list |-> Gather(i_list, index),
         j_list |-> Gather(j_list, index),
         S_list |-> Gather(S_list, index),
         D_list |-> Gather(D_list, index)]

\* the arrays either batcher hands to sort_pairs and the arrays it gets
SortedPairsOf(system, uninit) ==
    LET rm == RemapOfSystem(system, uninit)
    IN  IF rm.status # "ok" THEN [status |-> rm.status]
        ELSE [status |-> "ok",
              before |-> [i_list |-> rm.i_list, j_list |-> rm.j_list,
                          S_list |-> S_list_of(system), D_list |-> D_list_of(system)],
              after |-> sort_pairs(rm.i_list, rm.j_list, S_list_of(system),
                                   D_list_of(system))]

\* the reference path.  uninit: see remap_to_contiguous_indexing
get_system_batch_dict_old(system, max_num_neighbors, uninit) ==
    LET counts == unique_counts(i_list_of(system))
        unique_index == unique_index_of(system)
        actual_system_size == Len(unique_index)
        rm == RemapOfSystem(system, uninit)
    IN  IF rm.status # "ok" THEN [status |-> rm.status]
        ELSE
        LET central_species == get_central_species(system.types, unique_index)
            sorted_pairs == sort_pairs(rm.i_list, rm.j_list, S_list_of(system),
                                       D_list_of(system))
            j_list == sorted_pairs.j_list
            S_list == sorted_pairs.S_list
            D_list == sorted_pairs.D_list
            number_of_neighbors ==
                [a \in 1..actual_system_size |->
                    IF \E r \in DOMAIN counts : rm.unique_neighbors_index[r] = a - 1
                    THEN counts[CHOOSE r \in DOMAIN counts :
                                    rm.unique_neighbors_index[r] = a - 1]
                    ELSE 0]
            neighbors_index ==
                FillRows(j_list, counts, actual_system_size, max_num_neighbors, 0)
            neighbors_shifts ==
                FillRows(S_list, counts, actual_system_size, max_num_neighbors, ZeroShift)
            displacement_vectors ==
                FillRows(D_list, counts, actual_system_size, max_num_neighbors, 0)
            padding_mask ==
                [a \in 1..actual_system_size |->
                    [k \in 1..max_num_neighbors |-> a <= Len(counts) /\ k > counts[a]]]
            reversed ==
                [a \in 1..actual_system_size |->
                    ReversedRow(neighbors_index, neighbors_shifts, number_of_neighbors,
                                a - 1, max_num_neighbors)]
        IN  IF \E r \in DOMAIN counts : counts[r] > max_num_neighbors
            THEN [status |-> "RuntimeError"]       \* t[j, :count] = a longer segment
            ELSE IF ~ValidIndex(neighbors_index, Len(central_species))
            THEN [status |-> "IndexError"]         \* central_species[neighbors_index]
            ELSE IF ~ValidIndex(neighbors_index, actual_system_size)
            THEN [status |-> "IndexError"]         \* neighbors_index[neighbors_index]
            ELSE IF \E a \in DOMAIN reversed : reversed[a].status # "ok"
            THEN [status |-> "RuntimeError"]
            ELSE [status |-> "ok",
                  central_species |-> central_species,
                  x |-> displacement_vectors,
                  neighbor_species |-> Index2(central_species, neighbors_index),
                  neighbors_pos |-> [a \in DOMAIN reversed |-> reversed[a].row],
                  neighbors_index |-> neighbors_index,
                  nums |-> number_of_neighbors,
                  mask |-> padding_mask]

(***************************************************************************)
(* torch.ops.neighbors_convert.process is a native extension; it is        *)
(* modelled from the contract of the Neighbor-List Batcher: one row per    *)
(* unique atom, fixed width max_num, the position of the species in the    *)
(* vocabulary, the reverse pointer to the slot of the neighbor's row       *)
(* holding the centre with the opposite shift (first in sorted order), the *)
(* true neighbor count and the padding mask.  An unseen species and a      *)
(* missing reverse edge are configuration errors.                          *)
(***************************************************************************)
process_neighbors(i_list, j_list, S_list, D_list, max_num, n_atoms, species) ==
    LET seg(a) == SortedSeq({p \in DOMAIN i_list : i_list[p] = a})
        nums == [a \in 1..n_atoms |-> Len(seg(a - 1))]
        Pad(xs, a, pad) ==
            [k \in 1..max_num |-> IF k <= nums[a] THEN xs[seg(a - 1)[k]] ELSE pad]
        neighbors_index == [a \in 1..n_atoms |-> Pad(j_list, a, 0)]
        shifts == [a \in 1..n_atoms |-> Pad(S_list, a, ZeroShift)]
        Position(sp) == (CHOOSE q \in DOMAIN all_species : all_species[q] = sp) - 1
        species_mapped == [a \in 1..n_atoms |-> Position(species[a])]
        Back(a, k) == {l \in 1..nums[neighbors_index[a][k] + 1] :
                          /\ neighbors_index[neighbors_index[a][k] + 1][l] = a - 1
                          /\ shifts[neighbors_index[a][k] + 1][l] = NegShift(shifts[a][k])}
    IN  IF \E a \in 1..n_atoms : species[a] \notin Range(all_species)
        THEN [status |-> "ValueError"]
        ELSE IF \E p \in DOMAIN j_list : j_list[p] \notin 0..(n_atoms - 1)
        THEN [status |-> "IndexError"]
        ELSE IF \E a \in 1..n_atoms : nums[a] > max_num
        THEN [status |-> "RuntimeError"]
        ELSE IF \E a \in 1..n_atoms : \E k \in 1..nums[a] : Back(a, k) = {}
        THEN [status |-> "ValueError"]
        ELSE [status |-> "ok",
              central_species |-> species_mapped,
              x |-> [a \in 1..n_atoms |-> Pad(D_list, a, 0)],
              neighbor_species |-> Index2(species_mapped, neighbors_index),
              neighbors_pos |->
                  [a \in 1..n_atoms |->
                      [k \in 1..max_num |->
                          IF k <= nums[a]
                          THEN (CHOOSE l \in Back(a, k) : \A m \in Back(a, k) : l <= m) - 1
                          ELSE 0]],
              neighbors_index |-> neighbors_index,
              nums |-> nums,
              mask |-> [a \in 1..n_atoms |-> [k \in 1..max_num |-> k > nums[a]]]]

\* the production path.  uninit: see remap_to_contiguous_indexing
get_system_batch_dict(system, max_num_neighbors, uninit) ==
    LET unique_index == unique_index_of(system)
        actual_system_size == Len(unique_index)
        rm == RemapOfSystem(system, uninit)
    IN  IF rm.status # "ok" THEN [status |-> rm.status]
        ELSE
        LET sorted_pairs == sort_pairs(rm.i_list, rm.j_list, S_list_of(system),
                                       D_list_of(system))
            species == [p \in DOMAIN unique_index |-> system.types[unique_index[p] + 1]]
        IN  process_neighbors(sorted_pairs.i_list, sorted_pairs.j_list,
                              sorted_pairs.S_list, sorted_pairs.D_list,
                              max_num_neighbors, actual_system_size, species)

\* get_max_num_neighbors: bincount(i_list).max() per system, 0 for an empty
\* list, then the max over the systems
get_max_num_neighbors(systems) ==
    MaxOf({IF Len(systems[n].pairs) = 0 THEN 0
           ELSE MaxOf({Cardinality({p \in DOMAIN systems[n].pairs :
                                       systems[n].pairs[p].first_atom = a}) :
                          a \in 0..MaxOf(Range(i_list_of(systems[n])))}) :
              n \in DOMAIN systems})

RECURSIVE Cat(_)
\* torch.cat(tensors, dim=0)
Cat(tensors) == IF tensors = <<>> THEN <<>> ELSE tensors[1] \o Cat(Tail(tensors))

\* the body of collate_graph_dicts: the keys of cumulative_adjust_keys get
\* n_nodes_cumulative added, the others are concatenated as they are, and
\* the batch vector repeats first_index + index for each atom of graph index
Collate(graph_dicts, cumulative_adjust_keys, first_index) ==
    LET n_atoms(index) == Len(graph_dicts[index].central_species)
        n_nodes_cumulative(index) ==
            SumSeq([q \in 1..(index - 1) |-> n_atoms(q)])
        shift(key, index) ==
            IF key \in cumulative_adjust_keys THEN n_nodes_cumulative(index) ELSE 0
        slots(key) ==
            Cat([index \in DOMAIN graph_dicts |->
                    [a \in DOMAIN graph_dicts[index][key] |->
                        [k \in DOMAIN graph_dicts[index][key][a] |->
                            graph_dicts[index][key][a][k] + shift(key, index)]]])
        simple(key) == Cat([index \in DOMAIN graph_dicts |-> graph_dicts[index][key]])
    IN  [central_species |-> simple("central_species"),
         x |-> simple("x"),
         neighbor_species |-> simple("neighbor_species"),
         neighbors_pos |-> slots("neighbors_pos"),
         nums |-> simple("nums"),
         mask |-> simple("mask"),
         neighbors_index |-> slots("neighbors_index"),
         batch |->
             Cat([index \in DOMAIN graph_dicts |->
                     [a \in 1..n_atoms(index) |-> first_index + index - 1]])]

\* the batch vector counts the systems from 1
collate_one_based(graph_dicts) == Collate(graph_dicts, {"neighbors_index"}, 1)

\* the reverse pointers are offset like the neighbor indices
collate_adjusting_neighbors_pos(graph_dicts) ==
    Collate(graph_dicts, {"neighbors_index", "neighbors_pos"}, 0)

\* no key is offset
collate_without_offset(graph_dicts) == Collate(graph_dicts, {}, 0)

\* collate_graph_dicts: cumulative_adjust_keys is ["neighbors_index"] (line 42)
\* and the batch vector holds the loop index (line 74)
collate_graph_dicts(graph_dicts) == Collate(graph_dicts, {"neighbors_index"}, 0)

(***************************************************************************)
(* The systems the model is run on.                                        *)
(***************************************************************************)
Atoms == 0..(MaxAtoms - 1)

\* an undirected edge: atoms a <= b and the first component s of the cell
\* shift; an atom is its own neighbor only through a periodic image
Edges == {e \in [a : Atoms, b : Atoms, s : {0, 1}] :
             e.a < e.b \/ (e.a = e.b /\ e.s = 1)}

Fwd(e) == [first_atom |-> e.a, second_atom |-> e.b, cell_shift |-> <<e.s, 0, 0>>]
Bwd(e) == [first_atom |-> e.b, second_atom |-> e.a, cell_shift |-> <<0 - e.s, 0, 0>>]
PairCode(r) == r.first_atom * 100 + r.second_atom * 10 + r.cell_shift[1] + 1

\* the pair records of a full neighbor list over the edges E: grouped by
\* centre, or edge by edge (each record followed by its mirror)
FullList(E, order) ==
    LET R == {Fwd(e) : e \in E} \cup {Bwd(e) : e \in E}
        codes == SortedSeq({PairCode(r) : r \in R})
        es == SortedSeq({PairCode(Fwd(e)) : e \in E})
        edge(q) == CHOOSE e \in E : PairCode(Fwd(e)) = es[q]
    IN  IF order = "by_centre"
        THEN [p \in DOMAIN codes |-> CHOOSE r \in R : PairCode(r) = codes[p]]
        ELSE [p \in 1..(2 * Len(es)) |->
                 IF p % 2 = 1 THEN Fwd(edge((p + 1) \div 2)) ELSE Bwd(edge(p \div 2))]

\* the list without its record number drop (0: the whole list); the value of
\* a record identifies it
Pairs(E, order, drop) ==
    LET full == FullList(E, order)
        kept == SelectSeq([p \in DOMAIN full |-> [rec |-> full[p], pos |-> p]],
                          LAMBDA t : t.pos # drop)
    IN  [p \in DOMAIN kept |->
            [first_atom |-> kept[p].rec.first_atom,
             second_atom |-> kept[p].rec.second_atom,
             cell_shift |-> kept[p].rec.cell_shift,
             value |-> kept[p].pos]]

\* alternating types of the vocabulary, atom number unknown (1-based, 0: none)
\* of a species the vocabulary lacks
Types(n, unknown) ==
    [a \in 1..n |-> IF a = unknown THEN 6 ELSE IF a % 2 = 1 THEN 1 ELSE 8]

\* a chain of n atoms: each atom neighbors the next one
Chain(n) == {[a |-> q, b |-> q + 1, s |-> 0] : q \in 0..(n - 2)}

\* every pair record has its mirror (j, i, -shift)
IsFull(system) ==
    \A p \in DOMAIN system.pairs : \E q \in DOMAIN system.pairs :
        /\ system.pairs[q].first_atom = system.pairs[p].second_atom
        /\ system.pairs[q].second_atom = system.pairs[p].first_atom
        /\ system.pairs[q].cell_shift = NegShift(system.pairs[p].cell_shift)

(***************************************************************************)
(* State.                                                                  *)
(*   systems            the systems of the call, each with its atom types, *)
(*                      pair records and selected_atoms_index              *)
(*   max_num_neighbors  the padding width                                  *)
(*   remapped           what remap_to_contiguous_indexing returned         *)
(*   batch              the per-system graphs of the production path       *)
(*   old                the per-system graph of the reference path         *)
(*   collated           what collate_graph_dicts returned                  *)
(*   pc                 the position of the caller                         *)
(* History:                                                                *)
(*   sorted             the pair arrays of the last per-system batcher     *)
(*                      call of SpecSystem, before and after its sort      *)
(***************************************************************************)
VARIABLES systems, max_num_neighbors, remapped, batch, old, collated, pc
VARIABLES sorted

(***************************************************************************)
(* State of one call of evaluate_model.                                    *)
(*   model           the model: whether it is exported, and its declared   *)
(*                   outputs (name -> quantity)                            *)
(*   targets         the requested targets (name -> TargetInfo)            *)
(*   is_training     the flag of the call                                  *)
(*   caller_systems  the System objects of the caller                      *)
(*   new_systems     the System objects the call has constructed           *)
(*   strains         the strain tensors the call has created               *)
(*   passed          what the model was called with: which systems and     *)
(*                   which output names                                    *)
(*   classified      energy_targets and the two lists of lines 57-59       *)
(*   model_outputs   the dictionary the call holds and returns             *)
(*   gradient_blocks the gradient blocks added to the energy block of each *)
(*                   target of model_outputs that requires gradients       *)
(*   epc             the position in evaluate_model                        *)
(***************************************************************************)
VARIABLES model, targets, is_training, caller_systems, new_systems, strains,
          passed, classified, model_outputs, epc
VARIABLES gradient_blocks

(***************************************************************************)
(* State of the model construction of train (soap_bpnn/train.py).          *)
(*   continue_from        whether a checkpoint to continue from is given   *)
(*   dataset_targets      dataset_info.targets (name -> quantity)          *)
(*   loaded               the model load(continue_from) returns: whether   *)
(*                        it is exported, the capability set it holds and  *)
(*                        the capabilities stored in the checkpoint file   *)
(*   new_capabilities     the outputs of the capabilities of line 86       *)
(*   model_capabilities   the outputs of model.capabilities                *)
(*   novel_capabilities   the outputs of novel_capabilities                *)
(*   added_outputs        the names model.add_output was called with       *)
(*   spc                  the position in the construction                 *)
(*   hypers_model         hypers["model"] (key -> value)                   *)
(*   fixed_composition_weights                                             *)
(*                        hypers["training"]["fixed_composition_weights"]: *)
(*                        target -> whether the species it lists are the   *)
(*                        species of the training datasets                 *)
(*   train_targets        the targets some training dataset holds          *)
(*   composition_weights  output -> where its composition weights come     *)
(*                        from: "zero", "checkpoint", "fixed", "computed"  *)
(*   visited              the outputs the composition loop has visited     *)
(*   warnings             the warnings logged so far                       *)
(***************************************************************************)
VARIABLES continue_from, dataset_targets, loaded, new_capabilities,
          model_capabilities, novel_capabilities, added_outputs, spc
VARIABLES hypers_model, fixed_composition_weights, train_targets,
          composition_weights, visited, warnings

setup_config == <<hypers_model, fixed_composition_weights, train_targets>>
setup_vars == <<continue_from, dataset_targets, loaded, new_capabilities,
                model_capabilities, novel_capabilities, added_outputs, spc,
                setup_config, composition_weights, visited, warnings>>
(***************************************************************************)
(* State of the training loop, of train (soap_bpnn/train.py) and of        *)
(* Trainer.train (soap_bpnn/trainer.py).  Every process runs the loop on   *)
(* its shard; p is rank + 1.                                               *)
(*   impl                  which of the two loops runs                     *)
(*   hypers                distributed, num_epochs, checkpoint_interval,   *)
(*                         early_stopping_patience                         *)
(*   world_size            the number of processes                         *)
(*   globals_bound         whether the names hypers, hypers_training and   *)
(*                         save, which trainer.py reads but neither        *)
(*                         defines nor imports, are bound in its module    *)
(*   num_train_batches, num_validation_batches                             *)
(*                         the lengths of the data loaders of a process    *)
(*   tpc[p]                the position of process p                       *)
(*   epoch[p], batch_no[p] the loop counters                               *)
(*   loss_batch[p]         train_loss_batch / validation_loss_batch        *)
(*   train_loss[p], validation_loss[p], best_validation_loss[p],           *)
(*   epochs_without_improvement[p]                                         *)
(*                         the variables of that name                      *)
(*   scheduler_input[p]    the argument of the last lr_scheduler.step      *)
(*   checkpoints           the writes so far: the file and the writer      *)
(* History:                                                                *)
(*   local_losses[p]       the losses of process p in the current pass,    *)
(*                         before any all-reduce                           *)
(*   phase_log[p]          the phases of the current epoch, in order       *)
(*   last_check[p]         the last early-stop check                       *)
(*   validation_history[p] the validation losses of the epochs whose       *)
(*                         early-stop check is done, in order              *)
(***************************************************************************)
VARIABLES impl, hypers, world_size, globals_bound, num_train_batches,
          num_validation_batches, tpc, epoch, batch_no, loss_batch, train_loss,
          validation_loss, best_validation_loss, epochs_without_improvement,
          scheduler_input, checkpoints, local_losses, phase_log, last_check,
          validation_history

loop_config == <<impl, hypers, world_size, globals_bound, num_train_batches,
                 num_validation_batches>>
loop_vars == <<loop_config, tpc, epoch, batch_no, loss_batch, train_loss,
               validation_loss, best_validation_loss, epochs_without_improvement,
               scheduler_input, checkpoints, local_losses, phase_log, last_check,
                       validation_history>>
train_vars == <<setup_vars, loop_vars>>

\* float("inf")
Inf == [finite |-> FALSE, value |-> 0]
NoCheck == [done |-> FALSE]

\* no training loop is running
LoopIdle ==
    /\ impl = "train"
    /\ hypers = [distributed |-> FALSE, num_epochs |-> 0, checkpoint_interval |-> 1,
                 early_stopping_patience |-> 1]
    /\ world_size = 0
    /\ globals_bound = TRUE
    /\ num_train_batches = 0
    /\ num_validation_batches = 0
    /\ tpc = <<>>
    /\ epoch = <<>>
    /\ batch_no = <<>>
    /\ loss_batch = <<>>
    /\ train_loss = <<>>
    /\ validation_loss = <<>>
    /\ best_validation_loss = <<>>
    /\ epochs_without_improvement = <<>>
    /\ scheduler_input = <<>>
    /\ checkpoints = {}
    /\ local_losses = <<>>
    /\ phase_log = <<>>
    /\ last_check = <<>>
    /\ validation_history = <<>>


\* no checkpoint is loaded
NoModel == [exported |-> FALSE, capabilities |-> <<>>, checkpoint |-> <<>>,
            hypers |-> <<>>]

\* the model construction of train is not running
SetupIdle ==
    /\ continue_from = FALSE
    /\ dataset_targets = <<>>
    /\ loaded = NoModel
    /\ new_capabilities = <<>>
    /\ model_capabilities = <<>>
    /\ novel_capabilities = <<>>
    /\ added_outputs = {}
    /\ spc = "idle"
    /\ hypers_model = <<>>
    /\ fixed_composition_weights = <<>>
    /\ train_targets = {}
    /\ composition_weights = <<>>
    /\ visited = {}
    /\ warnings = <<>>

\* train is not running
TrainIdle == SetupIdle /\ LoopIdle

batch_vars == <<systems, max_num_neighbors, remapped, batch, old, collated, pc,
               sorted>>
eval_vars == <<model, targets, is_training, caller_systems, new_systems, strains,
               passed, classified, model_outputs, epc, gradient_blocks>>
vars == <<batch_vars, eval_vars, train_vars>>

NoResult == [status |-> "none"]

NoClassification ==
    [energy_targets |-> {},
     energy_targets_that_require_position_gradients |-> {},
     energy_targets_that_require_strain_gradients |-> {}]

\* no call of evaluate_model is in progress
EvalIdle ==
    /\ model = [exported |-> FALSE, outputs |-> <<>>]
    /\ targets = <<>>
    /\ is_training = FALSE
    /\ caller_systems = <<>>
    /\ new_systems = <<>>
    /\ strains = <<>>
    /\ passed = NoResult
    /\ classified = NoClassification
    /\ model_outputs = <<>>
    /\ gradient_blocks = <<>>
    /\ epc = "idle"

\* no batching is in progress
BatchIdle ==
    /\ systems = <<>>
    /\ max_num_neighbors = 0
    /\ remapped = NoResult
    /\ batch = <<>>
    /\ old = NoResult
    /\ collated = NoResult
    /\ pc = "idle"
    /\ sorted = NoResult

\* bincount(i_list).max() of one system, 0 without pairs
OwnMax(system) == get_max_num_neighbors(<<system>>)

(***************************************************************************)
(* SpecSystem: the batchers called on one system, as the cross-validation  *)
(* of the production path against the reference path calls them, with a    *)
(* padding width of at least the system's own maximum.                     *)
(***************************************************************************)
InitSystem ==
    /\ \E E \in {F \in SUBSET Edges : Cardinality(F) <= MaxEdges} :
       \E order \in {"by_centre", "by_edge"} :
       \E drop \in 0..(2 * Cardinality(E)) :
       \E sel \in SUBSET Atoms :
       \E unknown \in {0, 1, MaxAtoms} :
          systems = <<[types |-> Types(MaxAtoms, unknown),
                       pairs |-> Pairs(E, order, drop),
                       selected_atoms_index |-> SortedSeq(sel)]>>
    /\ \E pad \in 0..MaxExtraPad : max_num_neighbors = OwnMax(systems[1]) + pad
    /\ remapped = NoResult
    /\ batch = <<>>
    /\ old = NoResult
    /\ collated = NoResult
    /\ pc = "direct"
    /\ sorted = NoResult
    /\ EvalIdle
    /\ TrainIdle

\* the remapper on the index arrays of lines 215-218
RemapToContiguousIndexing ==
    /\ pc = "direct"
    /\ \E uninit \in [Holes(unique_index_of(systems[1])) -> Uninitialized] :
          remapped' = RemapOfSystem(systems[1], uninit)
    /\ pc' = "remapped"
    /\ UNCHANGED <<systems, max_num_neighbors, batch, old, collated, sorted>>
    /\ UNCHANGED <<eval_vars, train_vars>>

CallGetSystemBatchDict ==
    /\ pc = "remapped"
    /\ \E uninit \in [Holes(unique_index_of(systems[1])) -> Uninitialized] :
          /\ batch' = <<get_system_batch_dict(systems[1], max_num_neighbors, uninit)>>
          /\ sorted' = SortedPairsOf(systems[1], uninit)
    /\ pc' = "fast"
    /\ UNCHANGED <<systems, max_num_neighbors, remapped, old, collated>>
    /\ UNCHANGED <<eval_vars, train_vars>>

CallGetSystemBatchDictOld ==
    /\ pc = "fast"
    /\ \E uninit \in [Holes(unique_index_of(systems[1])) -> Uninitialized] :
          /\ old' = get_system_batch_dict_old(systems[1], max_num_neighbors, uninit)
          /\ sorted' = SortedPairsOf(systems[1], uninit)
    /\ pc' = "old"
    /\ UNCHANGED <<systems, max_num_neighbors, remapped, batch, collated>>
    /\ UNCHANGED <<eval_vars, train_vars>>

NextSystem ==
    \/ RemapToContiguousIndexing
    \/ CallGetSystemBatchDict
    \/ CallGetSystemBatchDictOld

SpecSystem == InitSystem /\ [][NextSystem]_vars

(***************************************************************************)
(* Spec: systems_to_batch_dict on a list of systems.  Each system is a     *)
(* chain of n atoms or n atoms without any pair; selected_atoms is None    *)
(* (every atom of every system is selected) or a set of labels, which may  *)
(* name no atom of some system.                                            *)
(***************************************************************************)
ChainSystems ==
    {[types |-> Types(n, 0),
      pairs |-> Pairs(IF linked THEN Chain(n) ELSE {}, "by_centre", 0),
      selected_atoms_index |-> SortedSeq(0..(n - 1))] :
         n \in 1..MaxChainAtoms, linked \in BOOLEAN}
    \cup {[types |-> Types(1, 0), pairs |-> <<>>, selected_atoms_index |-> <<>>]}

Init ==
    /\ \E m \in 1..MaxSystems : systems \in [1..m -> ChainSystems]
    /\ max_num_neighbors = 0
    /\ remapped = NoResult
    /\ batch = <<>>
    /\ old = NoResult
    /\ collated = NoResult
    /\ pc = "start"
    /\ sorted = NoResult
    /\ EvalIdle
    /\ TrainIdle

\* line 479
GetMaxNumNeighbors ==
    /\ pc = "start"
    /\ max_num_neighbors' = get_max_num_neighbors(systems)
    /\ pc' = "batching"
    /\ UNCHANGED <<systems, remapped, batch, old, collated, sorted>>
    /\ UNCHANGED <<eval_vars, train_vars>>

\* one round of the loop of lines 480-495; an exception leaves the function
GetSystemBatchDict ==
    /\ pc = "batching"
    /\ Len(batch) < Len(systems)
    /\ \E uninit \in [Holes(unique_index_of(systems[Len(batch) + 1])) -> Uninitialized] :
          LET system_dict == get_system_batch_dict(systems[Len(batch) + 1],
                                                   max_num_neighbors, uninit)
          IN  IF system_dict.status = "ok"
              THEN /\ batch' = Append(batch, system_dict)
                   /\ pc' = pc
                   /\ collated' = collated
              ELSE /\ batch' = batch
                   /\ pc' = "raised"
                   /\ collated' = [status |-> system_dict.status]
    /\ UNCHANGED <<systems, max_num_neighbors, remapped, old, sorted>>
    /\ UNCHANGED <<eval_vars, train_vars>>

\* line 496
CollateGraphDicts ==
    /\ pc = "batching"
    /\ Len(batch) = Len(systems)
    /\ collated' = collate_graph_dicts(batch)
    /\ pc' = "done"
    /\ UNCHANGED <<systems, max_num_neighbors, remapped, batch, old, sorted>>
    /\ UNCHANGED <<eval_vars, train_vars>>

Next ==
    \/ GetMaxNumNeighbors
    \/ GetSystemBatchDict
    \/ CollateGraphDicts

Spec == Init /\ [][Next]_vars

(***************************************************************************)
(* evaluate_model.                                                         *)
(***************************************************************************)
TargetNames == {"energy", "mtm::aux::energy_2"}
Quantities == {"energy", "dipole"}
GradientNames == {"positions", "strain"}

\* a 3x3 cell, row by row: no cell, one lattice vector only, the identity
ZeroCell == [e \in 1..9 |-> 0]
SlabCell == [e \in 1..9 |-> IF e = 1 THEN 1 ELSE 0]
IdentityCell == [e \in 1..9 |-> IF e \in {1, 5, 9} THEN 1 ELSE 0]

\* systems in the list handed to evaluate_model
MaxEvalSystems == 2

EvalSystem(t, c) ==
    [types |-> t, cell |-> c, requires_grad |-> FALSE,
     known_neighbor_lists |-> {"full_list"}]

\* an isolated atom without a cell, a molecule in a slab cell, and both in a
\* full cell
EvalSystems ==
    {EvalSystem(<<8>>, ZeroCell), EvalSystem(<<1, 8>>, SlabCell),
     EvalSystem(<<8>>, IdentityCell), EvalSystem(<<1, 8>>, IdentityCell)}

\* is_exported: the model is a MetatensorAtomisticModel or a loaded script module
is_exported(m) == m.exported

\* _get_outputs: the declared outputs of either kind of model
get_outputs(m) == m.outputs

\* the check is missing
targets_never_rejected(m, t) == TRUE

\* line 53: set(targets.keys()).issubset(model_outputs.keys())
targets_within_capabilities(m, t) == DOMAIN t \subseteq DOMAIN get_outputs(m)

\* torch.any instead of torch.all: a cell with a zero entry counts as absent
no_cell_has_a_zero(systs) ==
    \A n \in DOMAIN systs : ~(\E e \in 1..9 : systs[n].cell[e] = 0)

\* line 71: all([not torch.all(system.cell == 0) for system in systems])
all_have_cells(systs) ==
    \A n \in DOMAIN systs : ~(\A e \in 1..9 : systs[n].cell[e] = 0)

\* lines 57-68
classify_targets(m, t) ==
    LET energy == {name \in DOMAIN t : get_outputs(m)[name] = "energy"}
    IN  [energy_targets |-> energy,
         energy_targets_that_require_position_gradients |->
             {name \in energy : "positions" \in t[name].gradients},
         energy_targets_that_require_strain_gradients |->
             {name \in energy : "strain" \in t[name].gradients}]

\* only the energy targets are asked for
requested_energy_only(t) == {name \in DOMAIN t : name = "energy"}

\* lines 304-309 and 316-321: the names the model is asked for
requested_outputs(t) == DOMAIN t

\* a gradient one energy target requires is attached to every energy target
attach_to_every_energy(outputs, cls) ==
    [name \in DOMAIN outputs |->
        LET pos == cls.energy_targets_that_require_position_gradients # {}
            disp == cls.energy_targets_that_require_strain_gradients # {}
        IN  IF name \in cls.energy_targets /\ (pos \/ disp)
            THEN [gradients |-> (IF pos THEN {"positions"} ELSE {})
                                    \cup (IF disp THEN {"strain"} ELSE {}),
                  from_model |-> FALSE]
            ELSE outputs[name]]

\* the loop of lines 149-206 over energy_targets: the tensor map of a target
\* that requires gradients is replaced by a new one holding a copy of the
\* energy block with the gradient blocks added; the others stay the objects
\* the model returned
attach_gradients(outputs, cls) ==
    [name \in DOMAIN outputs |->
        LET pos == name \in cls.energy_targets_that_require_position_gradients
            disp == name \in cls.energy_targets_that_require_strain_gradients
        IN  IF name \in cls.energy_targets /\ (pos \/ disp)
            THEN [gradients |-> (IF pos THEN {"positions"} ELSE {})
                                    \cup (IF disp THEN {"strain"} ELSE {}),
                  from_model |-> FALSE]
            ELSE outputs[name]]

\* compute_gradient(target, inputs, is_training) of utils/compute_gradient.py:
\* one gradient for each input, in the order of inputs, of the shape of
\* its input
compute_gradient(inputs) == [p \in DOMAIN inputs |-> [gradient_of |-> inputs[p]]]

\* [system.positions for system in systems] and strains (lines 158, 178,
\* 192): the positions of system k (0-based) have num_atoms[k + 1] rows
positions_of(m, num_atoms) ==
    [p \in 1..m |-> [wrt |-> "positions", system |-> p - 1, rows |-> num_atoms[p]]]
strains_of(m) == [p \in 1..m |-> [wrt |-> "strain", system |-> p - 1, rows |-> 3]]

\* the atom labels count from one
position_block_one_based(gradients_list) ==
    IF gradients_list = <<>> THEN [status |-> "RuntimeError"]
    ELSE [status |-> "ok",
          values |-> Cat([i \in DOMAIN gradients_list |->
                             [a \in 1..gradients_list[i].gradient_of.rows |->
                                 [gradient |-> gradients_list[i], row |-> a - 1]]]),
          samples |-> Cat([i \in DOMAIN gradients_list |->
                              [a \in 1..gradients_list[i].gradient_of.rows |->
                                  <<i - 1, a>>]]),
          components |-> <<<<0, 1, 2>>>>]

\* lines 211-247: the gradients concatenated along the rows, labelled
\* (i, row) with i the position in the list
_position_gradients_to_block(gradients_list) ==
    IF gradients_list = <<>> THEN [status |-> "RuntimeError"]
    ELSE [status |-> "ok",
          values |-> Cat([i \in DOMAIN gradients_list |->
                             [a \in 1..gradients_list[i].gradient_of.rows |->
                                 [gradient |-> gradients_list[i], row |-> a - 1]]]),
          samples |-> Cat([i \in DOMAIN gradients_list |->
                              [a \in 1..gradients_list[i].gradient_of.rows |->
                                  <<i - 1, a - 1>>]]),
          components |-> <<<<0, 1, 2>>>>]

\* lines 250-279: the gradients stacked, labelled by the position in the
\* list; torch.stack needs tensors of one shape
_strain_gradients_to_block(gradients_list) ==
    IF gradients_list = <<>>
       \/ \E i \in DOMAIN gradients_list :
             gradients_list[i].gradient_of.rows # gradients_list[1].gradient_of.rows
    THEN [status |-> "RuntimeError"]
    ELSE [status |-> "ok",
          values |-> [i \in DOMAIN gradients_list |-> [gradient |-> gradients_list[i]]],
          samples |-> [i \in DOMAIN gradients_list |-> <<i - 1>>],
          components |-> <<<<0, 1, 2>>, <<0, 1, 2>>>>]

\* lines 149-206: the gradient blocks of every energy target that requires
\* gradients; with both kinds the first m gradients go to the positions
\* block and the rest to the strain block
gradient_blocks_of(cls, m, num_atoms) ==
    LET pos(name) == name \in cls.energy_targets_that_require_position_gradients
        disp(name) == name \in cls.energy_targets_that_require_strain_gradients
        with == {name \in cls.energy_targets : pos(name) \/ disp(name)}
    IN  [name \in with |->
            IF pos(name) /\ disp(name)
            THEN LET gradients == compute_gradient(positions_of(m, num_atoms)
                                                       \o strains_of(m))
                 IN  [positions |->
                          _position_gradients_to_block(SubSeq(gradients, 1, m)),
                      strain |->
                          _strain_gradients_to_block(
                              SubSeq(gradients, m + 1, Len(gradients)))]
            ELSE IF pos(name)
            THEN [positions |->
                      _position_gradients_to_block(
                          compute_gradient(positions_of(m, num_atoms)))]
            ELSE [strain |->
                      _strain_gradients_to_block(compute_gradient(strains_of(m)))]]

InitEval ==
    /\ BatchIdle
    /\ TrainIdle
    /\ \E declared \in SUBSET TargetNames :
          model \in [exported : BOOLEAN, outputs : [declared -> Quantities]]
    /\ \E requested \in SUBSET TargetNames :
          targets \in [requested -> [gradients : SUBSET GradientNames]]
    /\ is_training \in BOOLEAN
    /\ \E m \in 0..MaxEvalSystems : caller_systems \in [1..m -> EvalSystems]
    /\ new_systems = <<>>
    /\ strains = <<>>
    /\ passed = NoResult
    /\ classified = NoClassification
    /\ model_outputs = <<>>
    /\ gradient_blocks = <<>>
    /\ epc = "start"

\* lines 51-54
CheckTargets ==
    /\ epc = "start"
    /\ epc' = IF targets_within_capabilities(model, targets)
              THEN "classify"
              ELSE "ValueError: Not all targets are within the model's capabilities."
    /\ UNCHANGED <<model, targets, is_training, caller_systems, new_systems, strains,
                   passed, classified, model_outputs>>
    /\ UNCHANGED <<gradient_blocks, batch_vars, train_vars>>

\* lines 56-68; model_outputs[target_name] of a name the model lacks is a KeyError
ClassifyTargets ==
    /\ epc = "classify"
    /\ IF DOMAIN targets \subseteq DOMAIN get_outputs(model)
       THEN /\ classified' = classify_targets(model, targets)
            /\ epc' = "prepare"
       ELSE /\ classified' = classified
            /\ epc' = "KeyError"
    /\ UNCHANGED <<model, targets, is_training, caller_systems, new_systems, strains,
                   passed, model_outputs>>
    /\ UNCHANGED <<gradient_blocks, batch_vars, train_vars>>

\* lines 70-75: strain gradients are requested and some system has no cell
RejectMissingCell ==
    /\ epc = "prepare"
    /\ classified.energy_targets_that_require_strain_gradients # {}
    /\ ~all_have_cells(caller_systems)
    /\ epc' = "ValueError: One or more systems does not have a cell, but strain gradients were requested."
    /\ UNCHANGED <<model, targets, is_training, caller_systems, new_systems, strains,
                   passed, classified, model_outputs>>
    /\ UNCHANGED <<gradient_blocks, batch_vars, train_vars>>

\* the neighbor lists are not added to the new system
new_system_without_neighbor_lists(system) ==
    [types |-> system.types, cell |-> system.cell, requires_grad |-> TRUE,
     known_neighbor_lists |-> {}]

\* a System(...) built from a caller's system, with its neighbor lists
\* registered and added again
NewSystem(system) ==
    [types |-> system.types, cell |-> system.cell, requires_grad |-> TRUE,
     known_neighbor_lists |-> system.known_neighbor_lists]

\* lines 76-107: one strain per system and the strained systems
MakeStrainedSystems ==
    /\ epc = "prepare"
    /\ classified.energy_targets_that_require_strain_gradients # {}
    /\ all_have_cells(caller_systems)
    /\ strains' = [n \in DOMAIN caller_systems |-> [requires_grad |-> TRUE]]
    /\ new_systems' = [n \in DOMAIN caller_systems |-> NewSystem(caller_systems[n])]
    /\ epc' = "invoke"
    /\ UNCHANGED <<model, targets, is_training, caller_systems, passed, classified,
                   model_outputs>>
    /\ UNCHANGED <<gradient_blocks, batch_vars, train_vars>>

\* lines 109-134: a model in training gets fresh gradient-tracked positions
ClonePositions ==
    /\ epc = "prepare"
    /\ classified.energy_targets_that_require_strain_gradients = {}
    /\ classified.energy_targets_that_require_position_gradients # {}
    /\ ~is_exported(model)
    /\ new_systems' = [n \in DOMAIN caller_systems |-> NewSystem(caller_systems[n])]
    /\ epc' = "invoke"
    /\ UNCHANGED <<model, targets, is_training, caller_systems, strains, passed,
                   classified, model_outputs>>
    /\ UNCHANGED <<gradient_blocks, batch_vars, train_vars>>

\* lines 135-144: the positions of the caller's systems are marked in place
MarkPositionsInPlace ==
    /\ epc = "prepare"
    /\ classified.energy_targets_that_require_strain_gradients = {}
    /\ classified.energy_targets_that_require_position_gradients # {}
    /\ is_exported(model)
    /\ caller_systems' = [n \in DOMAIN caller_systems |->
                             [caller_systems[n] EXCEPT !.requires_grad = TRUE]]
    /\ epc' = "invoke"
    /\ UNCHANGED <<model, targets, is_training, new_systems, strains, passed,
                   classified, model_outputs>>
    /\ UNCHANGED <<gradient_blocks, batch_vars, train_vars>>

\* no energy target requires a gradient
KeepSystems ==
    /\ epc = "prepare"
    /\ classified.energy_targets_that_require_strain_gradients = {}
    /\ classified.energy_targets_that_require_position_gradients = {}
    /\ epc' = "invoke"
    /\ UNCHANGED <<model, targets, is_training, caller_systems, new_systems, strains,
                   passed, classified, model_outputs>>
    /\ UNCHANGED <<gradient_blocks, batch_vars, train_vars>>

\* the systems variable of evaluate_model at line 147
SystemsAtCall ==
    IF classified.energy_targets_that_require_strain_gradients # {}
       \/ (classified.energy_targets_that_require_position_gradients # {}
              /\ ~is_exported(model))
    THEN "new_systems"
    ELSE "caller_systems"

\* line 147 and _get_model_outputs: either kind of model is asked for the
\* keys of targets and returns one tensor map for each
InvokeModel ==
    /\ epc = "invoke"
    /\ passed' = [status |-> "called", systems |-> SystemsAtCall,
                  outputs |-> requested_outputs(targets)]
    /\ model_outputs' = [name \in requested_outputs(targets) |->
                            [gradients |-> {}, from_model |-> TRUE]]
    /\ epc' = "gradients"
    /\ UNCHANGED <<model, targets, is_training, caller_systems, new_systems, strains,
                   classified>>
    /\ UNCHANGED <<gradient_blocks, batch_vars, train_vars>>

\* lines 149-206: the energy block of a target that requires gradients is
\* copied, the gradient blocks are added and a new tensor map replaces the
\* model's; torch.concatenate and torch.stack of an empty list raise
AttachGradients ==
    /\ epc = "gradients"
    /\ LET at_call == IF SystemsAtCall = "new_systems" THEN new_systems
                      ELSE caller_systems
           blocks == gradient_blocks_of(classified, Len(at_call),
                                        [k \in DOMAIN at_call |->
                                            Len(at_call[k].types)])
       IN  IF \E name \in DOMAIN blocks : \E g \in DOMAIN blocks[name] :
                 blocks[name][g].status # "ok"
           THEN /\ epc' = "RuntimeError"
                /\ UNCHANGED <<model_outputs, gradient_blocks>>
           ELSE /\ model_outputs' = attach_gradients(model_outputs, classified)
                /\ gradient_blocks' = blocks
                /\ epc' = "returned"
    /\ UNCHANGED <<model, targets, is_training, caller_systems, new_systems, strains,
                   passed, classified>>
    /\ UNCHANGED <<batch_vars, train_vars>>

NextEval ==
    \/ CheckTargets
    \/ ClassifyTargets
    \/ RejectMissingCell
    \/ MakeStrainedSystems
    \/ ClonePositions
    \/ MarkPositionsInPlace
    \/ KeepSystems
    \/ InvokeModel
    \/ AttachGradients

SpecEval == InitEval /\ [][NextEval]_vars

(***************************************************************************)
(* The model construction of train: the requested capabilities, and their  *)
(* merge with the capabilities of the model training continues from.       *)
(* A capability set is represented by its outputs, name -> quantity.       *)
(***************************************************************************)
LastLayerFeatures == "mtm::aux::last_layer_features"
OutputNames == TargetNames \cup {LastLayerFeatures}
\* the quantity of ModelOutput(per_atom=True) is the empty string
OutputQuantities == Quantities \cup {""}

\* the outputs of f restricted to the names of S
Restrict(f, S) == [name \in S |-> f[name]]

\* the two sets declare an output of the same name differently
Incompatible(old_outputs, new_outputs) ==
    \E name \in DOMAIN old_outputs \cap DOMAIN new_outputs :
        old_outputs[name] # new_outputs[name]

\* every output of the new set counts as novel
merge_all_novel(old_outputs, new_outputs) ==
    IF Incompatible(old_outputs, new_outputs)
    THEN [status |-> "ValueError", old_after |-> old_outputs, new_after |-> new_outputs]
    ELSE [status |-> "ok",
          merged |-> [name \in DOMAIN old_outputs \cup DOMAIN new_outputs |->
                         IF name \in DOMAIN old_outputs THEN old_outputs[name]
                         ELSE new_outputs[name]],
          novel |-> new_outputs,
          old_after |-> old_outputs, new_after |-> new_outputs]

\* the new declaration of a shared name silently replaces the old one, in
\* the old set itself
merge_in_place(old_outputs, new_outputs) ==
    LET merged == [name \in DOMAIN old_outputs \cup DOMAIN new_outputs |->
                      IF name \in DOMAIN new_outputs THEN new_outputs[name]
                      ELSE old_outputs[name]]
    IN  [status |-> "ok",
         merged |-> merged,
         novel |-> Restrict(new_outputs, DOMAIN new_outputs \ DOMAIN old_outputs),
         old_after |-> merged, new_after |-> new_outputs]

\* merge_capabilities of utils/merge_capabilities.py, by the contract of the
\* Capability Reconciler: the union of the two sets and the outputs of the
\* new set the old one lacks; an output declared differently by the two is
\* a configuration error; the arguments are not modified (old_after,
\* new_after: the arguments after the call)
merge_capabilities(old_outputs, new_outputs) ==
    IF Incompatible(old_outputs, new_outputs)
    THEN [status |-> "ValueError", old_after |-> old_outputs, new_after |-> new_outputs]
    ELSE [status |-> "ok",
          merged |-> [name \in DOMAIN old_outputs \cup DOMAIN new_outputs |->
                         IF name \in DOMAIN old_outputs THEN old_outputs[name]
                         ELSE new_outputs[name]],
          novel |-> Restrict(new_outputs, DOMAIN new_outputs \ DOMAIN old_outputs),
          old_after |-> old_outputs, new_after |-> new_outputs]

\* lines 66-93: the targets of the dataset and the last layer features
requested_capabilities(dataset_info_targets) ==
    [name \in DOMAIN dataset_info_targets \cup {LastLayerFeatures} |->
        IF name = LastLayerFeatures THEN "" ELSE dataset_info_targets[name]]

\* the keys and the values of hypers["model"]
HyperKeys == {"soap", "restart"}
HyperValues == {"a", "b"}

\* lines 107-108: {k: v for k, v in ... if k != "restart"}
filtered(h) == [k \in DOMAIN h \ {"restart"} |-> h[k]]

HypersWarning ==
    "The hyperparameters of the model have changed since the last training run. The new hyperparameters will be discarded."
DatasetsError == "ValueError: check_datasets"
SpeciesError ==
    "ValueError: Values were not supplied for all the species in present in the dataset"
TargetError ==
    "ValueError: Target in the model's new capabilities is not present in any of the training datasets."

\* no output counts as auxiliary
never_auxiliary(name) == FALSE

\* line 155: "mtm::aux::" in target_name, over the names of OutputNames
is_auxiliary(name) == name \in {"mtm::aux::energy_2", LastLayerFeatures}

\* the order of the items of outputs (lines 66-84): the targets of the
\* dataset, then the last layer features
OutputOrder == <<"energy", "mtm::aux::energy_2", LastLayerFeatures>>

\* line 154: the output the loop over novel_capabilities.outputs visits next
Unvisited == {i \in DOMAIN OutputOrder :
                 OutputOrder[i] \in DOMAIN novel_capabilities \ visited}
next_output == OutputOrder[CHOOSE i \in Unvisited : \A j \in Unvisited : i <= j]

\* Model.set_composition_weights(output_name, weights, species) of
\* soap_bpnn/model.py: the weights of that output are replaced, the others
\* kept
set_composition_weights(weights, output_name, origin) ==
    [weights EXCEPT ![output_name] = origin]

\* Model.add_output(output_name) of soap_bpnn/model.py: a new head, with
\* composition weights of zero
add_outputs(weights, names) ==
    [name \in DOMAIN weights \cup names |->
        IF name \in DOMAIN weights THEN weights[name] ELSE "zero"]

SetupFrame == UNCHANGED <<batch_vars, eval_vars, loop_vars>>

InitSetup ==
    /\ BatchIdle
    /\ EvalIdle
    /\ LoopIdle
    /\ continue_from \in BOOLEAN
    /\ \E names \in SUBSET TargetNames : dataset_targets \in [names -> Quantities]
    /\ hypers_model \in [HyperKeys -> HyperValues]
    /\ IF continue_from
       THEN \E names \in SUBSET OutputNames :
            \E saved \in [names -> OutputQuantities] :
            \E exported \in BOOLEAN :
            \E old_hypers \in [HyperKeys -> HyperValues] :
               loaded = [exported |-> exported, capabilities |-> saved,
                         checkpoint |-> saved, hypers |-> old_hypers]
       ELSE loaded = NoModel
    /\ \E names \in SUBSET DOMAIN dataset_targets :
          fixed_composition_weights \in [names -> BOOLEAN]
    /\ train_targets \in SUBSET DOMAIN dataset_targets
    /\ new_capabilities = <<>>
    /\ model_capabilities = <<>>
    /\ novel_capabilities = <<>>
    /\ added_outputs = {}
    /\ composition_weights = <<>>
    /\ visited = {}
    /\ warnings = <<>>
    /\ spc = "start"

\* lines 66-93
RequestCapabilities ==
    /\ spc = "start"
    /\ new_capabilities' = requested_capabilities(dataset_targets)
    /\ spc' = "requested"
    /\ UNCHANGED <<continue_from, dataset_targets, loaded, model_capabilities,
                   novel_capabilities, added_outputs, setup_config,
                   composition_weights, visited, warnings>>
    /\ SetupFrame

\* lines 96-101: a new model, with composition weights of zero
CreateModel ==
    /\ spc = "requested"
    /\ ~continue_from
    /\ model_capabilities' = new_capabilities
    /\ novel_capabilities' = new_capabilities
    /\ composition_weights' = add_outputs(<<>>, DOMAIN new_capabilities)
    /\ spc' = "ready"
    /\ UNCHANGED <<continue_from, dataset_targets, loaded, new_capabilities,
                   added_outputs, setup_config, visited, warnings>>
    /\ SetupFrame

\* lines 103-105
RejectExportedModel ==
    /\ spc = "requested"
    /\ continue_from
    /\ is_exported(loaded)
    /\ spc' = "ValueError: model is already exported and can't be used for continue"
    /\ UNCHANGED <<continue_from, dataset_targets, loaded, new_capabilities,
                   model_capabilities, novel_capabilities, added_outputs,
                   setup_config, composition_weights, visited, warnings>>
    /\ SetupFrame

\* lines 107-121: the comparison of the hyperparameters, which logs a
\* warning and goes on, the merge, the assignment of the merged
\* capabilities and add_output for each novel output; an error of the
\* merge leaves train before the assignment
MergeCapabilities ==
    /\ spc = "requested"
    /\ continue_from
    /\ ~is_exported(loaded)
    /\ warnings' = IF filtered(hypers_model) # filtered(loaded.hypers)
                   THEN Append(warnings, HypersWarning)
                   ELSE warnings
    /\ LET r == merge_capabilities(loaded.capabilities, new_capabilities)
           stored == [name \in DOMAIN loaded.checkpoint |-> "checkpoint"]
       IN  /\ loaded' = [loaded EXCEPT !.capabilities = r.old_after]
           /\ new_capabilities' = r.new_after
           /\ IF r.status = "ok"
              THEN /\ model_capabilities' = r.merged
                   /\ novel_capabilities' = r.novel
                   /\ added_outputs' = DOMAIN r.novel
                   /\ composition_weights' = add_outputs(stored, DOMAIN r.novel)
                   /\ spc' = "ready"
              ELSE /\ UNCHANGED <<model_capabilities, novel_capabilities, added_outputs>>
                   /\ composition_weights' = stored
                   /\ spc' = r.status
    /\ UNCHANGED <<continue_from, dataset_targets, setup_config, visited>>
    /\ SetupFrame

\* lines 125-134: an inconsistency of the datasets is an error of a new
\* training and a warning of a continued one
CheckDatasets ==
    /\ spc = "ready"
    /\ \E consistent \in BOOLEAN :
          /\ spc' = IF consistent \/ continue_from THEN "checked" ELSE DatasetsError
          /\ warnings' = IF ~consistent /\ continue_from
                         THEN Append(warnings, DatasetsError)
                         ELSE warnings
    /\ UNCHANGED <<continue_from, dataset_targets, loaded, new_capabilities,
                   model_capabilities, novel_capabilities, added_outputs,
                   setup_config, composition_weights, visited>>
    /\ SetupFrame

\* lines 154-203: one iteration of the loop over the novel outputs
CompositionWeights ==
    /\ spc = "checked"
    /\ Unvisited # {}
    /\ LET target_name == next_output
       IN  /\ visited' = visited \cup {target_name}
           /\ IF is_auxiliary(target_name)
              THEN UNCHANGED <<composition_weights, spc>>
              ELSE IF target_name \in DOMAIN fixed_composition_weights
              THEN IF fixed_composition_weights[target_name]
                   THEN /\ composition_weights' =
                              set_composition_weights(composition_weights,
                                                      target_name, "fixed")
                        /\ UNCHANGED spc
                   ELSE /\ spc' = SpeciesError
                        /\ UNCHANGED composition_weights
              ELSE IF target_name \in train_targets
                   THEN /\ composition_weights' =
                              set_composition_weights(composition_weights,
                                                      target_name, "computed")
                        /\ UNCHANGED spc
                   ELSE /\ spc' = TargetError
                        /\ UNCHANGED composition_weights
    /\ UNCHANGED <<continue_from, dataset_targets, loaded, new_capabilities,
                   model_capabilities, novel_capabilities, added_outputs,
                   setup_config, warnings>>
    /\ SetupFrame

\* line 205: the loop over the novel outputs is over
WeightsDone ==
    /\ spc = "checked"
    /\ Unvisited = {}
    /\ spc' = "weights_set"
    /\ UNCHANGED <<continue_from, dataset_targets, loaded, new_capabilities,
                   model_capabilities, novel_capabilities, added_outputs,
                   setup_config, composition_weights, visited, warnings>>
    /\ SetupFrame

NextSetup ==
    \/ RequestCapabilities
    \/ CreateModel
    \/ RejectExportedModel
    \/ MergeCapabilities
    \/ CheckDatasets
    \/ CompositionWeights
    \/ WeightsDone

SpecSetup == InitSetup /\ [][NextSetup]_vars

(***************************************************************************)
(* The training loop.                                                      *)
(***************************************************************************)
\* epochs, processes, batches of a pass, checkpoint interval and patience
MaxEpochs == 3
MaxProcesses == 2
MaxTrainBatches == 2
MaxValidationBatches == 1
MaxInterval == 2
MaxPatience == 2

\* the values loss_fn returns for a batch of a process
LossValues == {1, 2}

Procs == 1..world_size

\* a validation loss equal to the best one counts as an improvement
improved_or_equal(loss, best) == ~best.finite \/ loss <= best.value

\* validation_loss < best_validation_loss
improved(loss, best) == ~best.finite \/ loss < best.value

\* a checkpoint is written in every epoch
checkpoint_always(e, interval) == TRUE

\* epoch % checkpoint_interval == 0
checkpoint_due(e, interval) == e % interval = 0

\* the counter has to exceed the patience
patience_exceeded(counter, patience) == counter > patience

\* epochs_without_improvement >= early_stopping_patience
patience_reached(counter, patience) == counter >= patience

\* the loop variable is not advanced
same_epoch(e) == e

\* the next value of range(num_epochs)
next_epoch(e) == e + 1

\* the barriers of the loop: train has one at the start of an epoch, one
\* between the training and the validation pass, one before a checkpoint
\* and one after the loop; Trainer.train has the one before a checkpoint
has_barrier(implementation, site) ==
    IF implementation = "train"
    THEN site \in {"barrier_epoch", "barrier_validation", "barrier_checkpoint",
                   "barrier_end"}
    ELSE site = "barrier_checkpoint"

\* trainer.py line 265: the loss of the batch is added to train_loss before
\* backward, and again at line 272
adds_before_all_reduce(implementation) == implementation = "Trainer.train"

\* the tensor of every process keeps its own value
no_reduce(tensors, p) == tensors[p]

\* torch.distributed.all_reduce(tensor): the tensor of process p after the
\* collective, the sum over the processes
all_reduce(tensors, p) == SumSeq(tensors)

\* where a process continues after a barrier
AfterBarrier(site) ==
    CASE site = "barrier_epoch" -> "train"
      [] site = "barrier_validation" -> "validation"
      [] site = "barrier_checkpoint" -> "save"
      [] site = "barrier_end" -> "returned"

BarrierSites == {"barrier_epoch", "barrier_validation", "barrier_checkpoint",
                 "barrier_end"}

\* the position after site: the barrier itself in distributed mode, if the
\* loop has one there
Through(site) ==
    IF hypers.distributed /\ has_barrier(impl, site) THEN site ELSE AfterBarrier(site)

LoopFrame == UNCHANGED <<batch_vars, eval_vars, setup_vars, loop_config>>

\* RMSEAccumulator.finalize(is_distributed=...) of utils/metrics.py: by the
\* coordination points of the Training Loop Orchestrator (a barrier before
\* an epoch, the all-reduce of a batch, a barrier before a checkpoint) it
\* does not wait for the other processes
finalize_synchronizes == FALSE

\* process q has run the batches of the training pass, of the validation
\* pass of epoch e
RanTrainBatches(q, e) ==
    \/ epoch[q] > e
    \/ /\ epoch[q] = e
       /\ tpc[q] \notin {"start", "epoch", "barrier_epoch", "train_reduce",
                         "train_accumulate"}
       /\ tpc[q] = "train" => batch_no[q] = num_train_batches

RanValidationBatches(q, e) ==
    \/ epoch[q] > e
    \/ /\ epoch[q] = e
       /\ RanTrainBatches(q, e)
       /\ tpc[q] \notin {"train", "barrier_validation", "validation_reduce",
                         "validation_accumulate"}
       /\ tpc[q] = "validation" => batch_no[q] = num_validation_batches

InitLoop ==
    /\ BatchIdle
    /\ EvalIdle
    /\ SetupIdle
    /\ impl \in {"train", "Trainer.train"}
    /\ hypers \in [distributed : BOOLEAN, num_epochs : 0..MaxEpochs,
                   checkpoint_interval : 1..MaxInterval,
                   early_stopping_patience : 1..MaxPatience]
    /\ IF hypers.distributed THEN world_size \in 2..MaxProcesses ELSE world_size = 1
    /\ globals_bound \in BOOLEAN
    /\ impl = "train" => globals_bound
    /\ num_train_batches \in 0..MaxTrainBatches
    /\ num_validation_batches \in 0..MaxValidationBatches
    /\ tpc = [p \in Procs |-> "start"]
    /\ epoch = [p \in Procs |-> 0]
    /\ batch_no = [p \in Procs |-> 0]
    /\ loss_batch = [p \in Procs |-> 0]
    /\ train_loss = [p \in Procs |-> 0]
    /\ validation_loss = [p \in Procs |-> 0]
    /\ best_validation_loss = [p \in Procs |-> Inf]
    /\ epochs_without_improvement = [p \in Procs |-> 0]
    /\ scheduler_input = [p \in Procs |-> 0]
    /\ checkpoints = {}
    /\ local_losses = [p \in Procs |-> [train |-> <<>>, validation |-> <<>>]]
    /\ phase_log = [p \in Procs |-> <<>>]
    /\ last_check = [p \in Procs |-> NoCheck]
    /\ validation_history = [p \in Procs |-> <<>>]

\* train lines 55-298, Trainer.train lines 54-232: everything before the
\* loop.  trainer.py reads hypers at line 54, a name it does not bind
StartTraining ==
    \E p \in Procs :
        /\ tpc[p] = "start"
        /\ tpc' = [tpc EXCEPT ![p] = IF globals_bound THEN "epoch" ELSE "NameError"]
        /\ best_validation_loss' = [best_validation_loss EXCEPT ![p] = Inf]
        /\ epochs_without_improvement' = [epochs_without_improvement EXCEPT ![p] = 0]
        /\ UNCHANGED <<epoch, batch_no, loss_batch, train_loss, validation_loss,
                       scheduler_input, checkpoints, local_losses, phase_log,
                       last_check,
                       validation_history>>
        /\ LoopFrame

\* train lines 302-308, Trainer.train lines 236-240
BeginEpoch ==
    \E p \in Procs :
        /\ tpc[p] = "epoch"
        /\ epoch[p] < hypers.num_epochs
        /\ tpc' = [tpc EXCEPT ![p] = Through("barrier_epoch")]
        /\ train_loss' = [train_loss EXCEPT ![p] = 0]
        /\ batch_no' = [batch_no EXCEPT ![p] = 0]
        /\ local_losses' = [local_losses EXCEPT ![p] = [train |-> <<>>, validation |-> <<>>]]
        /\ phase_log' = [phase_log EXCEPT ![p] = <<>>]
        /\ UNCHANGED <<epoch, loss_batch, validation_loss, best_validation_loss,
                       epochs_without_improvement, scheduler_input, checkpoints,
                       last_check,
                       validation_history>>
        /\ LoopFrame

\* a barrier: the processes leave it together once every one has entered a
\* barrier
Barrier ==
    /\ Procs # {}
    /\ \A p \in Procs : tpc[p] \in BarrierSites
    /\ tpc' = [p \in Procs |-> AfterBarrier(tpc[p])]
    /\ UNCHANGED <<epoch, batch_no, loss_batch, train_loss, validation_loss,
                   best_validation_loss, epochs_without_improvement, scheduler_input,
                   checkpoints, local_losses, phase_log, last_check,
                       validation_history>>
    /\ LoopFrame

\* train lines 309-332, Trainer.train lines 241-271: one batch up to the
\* all-reduce
TrainBatch ==
    \E p \in Procs : \E loss \in LossValues :
        /\ tpc[p] = "train"
        /\ batch_no[p] < num_train_batches
        /\ loss_batch' = [loss_batch EXCEPT ![p] = loss]
        /\ train_loss' = [train_loss EXCEPT ![p] =
                             IF adds_before_all_reduce(impl) THEN @ + loss ELSE @]
        /\ local_losses' = [local_losses EXCEPT ![p].train = Append(@, loss)]
        /\ tpc' = [tpc EXCEPT ![p] = IF hypers.distributed THEN "train_reduce"
                                     ELSE "train_accumulate"]
        /\ UNCHANGED <<epoch, batch_no, validation_loss, best_validation_loss,
                       epochs_without_improvement, scheduler_input, checkpoints,
                       phase_log, last_check,
                       validation_history>>
        /\ LoopFrame

\* torch.distributed.all_reduce: once every process has entered it, the
\* tensor of each holds the sum over the processes
AllReduce ==
    /\ Procs # {}
    /\ \A p \in Procs : tpc[p] \in {"train_reduce", "validation_reduce"}
    /\ loss_batch' = [p \in Procs |-> all_reduce(loss_batch, p)]
    /\ tpc' = [p \in Procs |-> IF tpc[p] = "train_reduce" THEN "train_accumulate"
                               ELSE "validation_accumulate"]
    /\ UNCHANGED <<epoch, batch_no, train_loss, validation_loss, best_validation_loss,
                   epochs_without_improvement, scheduler_input, checkpoints,
                   local_losses, phase_log, last_check,
                       validation_history>>
    /\ LoopFrame

\* train lines 333-334, Trainer.train lines 272-273
AccumulateTrainLoss ==
    \E p \in Procs :
        /\ tpc[p] = "train_accumulate"
        /\ train_loss' = [train_loss EXCEPT ![p] = @ + loss_batch[p]]
        /\ batch_no' = [batch_no EXCEPT ![p] = @ + 1]
        /\ phase_log' = [phase_log EXCEPT ![p] = Append(@, "train_batch")]
        /\ tpc' = [tpc EXCEPT ![p] = "train"]
        /\ UNCHANGED <<epoch, loss_batch, validation_loss, best_validation_loss,
                       epochs_without_improvement, scheduler_input, checkpoints,
                       local_losses, last_check,
                       validation_history>>
        /\ LoopFrame

\* train lines 335-344, Trainer.train lines 274-280: the end of the
\* training pass
EndTrainPass ==
    \E p \in Procs :
        /\ tpc[p] = "train"
        /\ batch_no[p] = num_train_batches
        /\ (hypers.distributed /\ finalize_synchronizes)
              => \A q \in Procs : RanTrainBatches(q, epoch[p])
        /\ validation_loss' = [validation_loss EXCEPT ![p] = 0]
        /\ batch_no' = [batch_no EXCEPT ![p] = 0]
        /\ tpc' = [tpc EXCEPT ![p] = Through("barrier_validation")]
        /\ UNCHANGED <<epoch, loss_batch, train_loss, best_validation_loss,
                       epochs_without_improvement, scheduler_input, checkpoints,
                       local_losses, phase_log, last_check,
                       validation_history>>
        /\ LoopFrame

\* train lines 345-364, Trainer.train lines 281-306
ValidationBatch ==
    \E p \in Procs : \E loss \in LossValues :
        /\ tpc[p] = "validation"
        /\ batch_no[p] < num_validation_batches
        /\ loss_batch' = [loss_batch EXCEPT ![p] = loss]
        /\ local_losses' = [local_losses EXCEPT ![p].validation = Append(@, loss)]
        /\ tpc' = [tpc EXCEPT ![p] = IF hypers.distributed THEN "validation_reduce"
                                     ELSE "validation_accumulate"]
        /\ UNCHANGED <<epoch, batch_no, train_loss, validation_loss,
                       best_validation_loss, epochs_without_improvement,
                       scheduler_input, checkpoints, phase_log, last_check,
                       validation_history>>
        /\ LoopFrame

\* train lines 365-366, Trainer.train lines 307-308
AccumulateValidationLoss ==
    \E p \in Procs :
        /\ tpc[p] = "validation_accumulate"
        /\ validation_loss' = [validation_loss EXCEPT ![p] = @ + loss_batch[p]]
        /\ batch_no' = [batch_no EXCEPT ![p] = @ + 1]
        /\ phase_log' = [phase_log EXCEPT ![p] = Append(@, "validation_batch")]
        /\ tpc' = [tpc EXCEPT ![p] = "validation"]
        /\ UNCHANGED <<epoch, loss_batch, train_loss, best_validation_loss,
                       epochs_without_improvement, scheduler_input, checkpoints,
                       local_losses, last_check,
                       validation_history>>
        /\ LoopFrame

\* train lines 367-392, Trainer.train lines 309-335: the end of the
\* validation pass, the scheduler step and the logging
SchedulerStep ==
    \E p \in Procs :
        /\ tpc[p] = "validation"
        /\ batch_no[p] = num_validation_batches
        /\ (hypers.distributed /\ finalize_synchronizes)
              => \A q \in Procs : RanValidationBatches(q, epoch[p])
        /\ scheduler_input' = [scheduler_input EXCEPT ![p] = validation_loss[p]]
        /\ phase_log' = [phase_log EXCEPT ![p] = Append(@, "scheduler_step")]
        /\ tpc' = [tpc EXCEPT ![p] = "checkpoint"]
        /\ UNCHANGED <<epoch, batch_no, loss_batch, train_loss, validation_loss,
                       best_validation_loss, epochs_without_improvement, checkpoints,
                       local_losses, last_check,
                       validation_history>>
        /\ LoopFrame

\* train lines 394-396, Trainer.train lines 337-339
CheckpointDecision ==
    \E p \in Procs :
        /\ tpc[p] = "checkpoint"
        /\ phase_log' = [phase_log EXCEPT ![p] = Append(@, "checkpoint_decision")]
        /\ tpc' = [tpc EXCEPT ![p] =
                      IF checkpoint_due(epoch[p], hypers.checkpoint_interval)
                      THEN Through("barrier_checkpoint")
                      ELSE "early_stop"]
        /\ UNCHANGED <<epoch, batch_no, loss_batch, train_loss, validation_loss,
                       best_validation_loss, epochs_without_improvement,
                       scheduler_input, checkpoints, local_losses, last_check,
                       validation_history>>
        /\ LoopFrame

\* train lines 397-400, Trainer.train lines 340-343: save is called by
\* every process that reaches it
SaveCheckpoint ==
    \E p \in Procs :
        /\ tpc[p] = "save"
        /\ checkpoints' = checkpoints \cup {[file |-> epoch[p], rank |-> p - 1]}
        /\ tpc' = [tpc EXCEPT ![p] = "early_stop"]
        /\ UNCHANGED <<epoch, batch_no, loss_batch, train_loss, validation_loss,
                       best_validation_loss, epochs_without_improvement,
                       scheduler_input, local_losses, phase_log, last_check,
                       validation_history>>
        /\ LoopFrame

\* train lines 402-414, Trainer.train lines 345-357
EarlyStopCheck ==
    \E p \in Procs :
        LET better == improved(validation_loss[p], best_validation_loss[p])
            counter == IF better THEN 0 ELSE epochs_without_improvement[p] + 1
            stop == ~better /\ patience_reached(counter, hypers.early_stopping_patience)
        IN  /\ tpc[p] = "early_stop"
            /\ best_validation_loss' =
                  [best_validation_loss EXCEPT ![p] =
                      IF better THEN [finite |-> TRUE, value |-> validation_loss[p]]
                      ELSE @]
            /\ epochs_without_improvement' =
                  [epochs_without_improvement EXCEPT ![p] = counter]
            /\ last_check' = [last_check EXCEPT ![p] =
                                 [done |-> TRUE,
                                  loss |-> validation_loss[p],
                                  best_before |-> best_validation_loss[p],
                                  counter_before |-> epochs_without_improvement[p],
                                  counter_after |-> counter,
                                  stopped |-> stop]]
            /\ validation_history' =
                  [validation_history EXCEPT ![p] = Append(@, validation_loss[p])]
            /\ phase_log' = [phase_log EXCEPT ![p] = Append(@, "early_stop_check")]
            /\ epoch' = [epoch EXCEPT ![p] = IF stop THEN @ ELSE next_epoch(@)]
            /\ tpc' = [tpc EXCEPT ![p] = IF stop THEN Through("barrier_end") ELSE "epoch"]
            /\ UNCHANGED <<batch_no, loss_batch, train_loss, validation_loss,
                           scheduler_input, checkpoints, local_losses>>
            /\ LoopFrame

\* the loop is exhausted: train lines 416-419, the end of Trainer.train
LeaveLoop ==
    \E p \in Procs :
        /\ tpc[p] = "epoch"
        /\ epoch[p] >= hypers.num_epochs
        /\ tpc' = [tpc EXCEPT ![p] = Through("barrier_end")]
        /\ UNCHANGED <<epoch, batch_no, loss_batch, train_loss, validation_loss,
                       best_validation_loss, epochs_without_improvement,
                       scheduler_input, checkpoints, local_losses, phase_log,
                       last_check,
                       validation_history>>
        /\ LoopFrame

NextLoop ==
    \/ StartTraining
    \/ BeginEpoch
    \/ Barrier
    \/ TrainBatch
    \/ AllReduce
    \/ AccumulateTrainLoss
    \/ EndTrainPass
    \/ ValidationBatch
    \/ AccumulateValidationLoss
    \/ SchedulerStep
    \/ CheckpointDecision
    \/ SaveCheckpoint
    \/ EarlyStopCheck
    \/ LeaveLoop

SpecLoop == InitLoop /\ [][NextLoop]_vars

\* every step that can be taken is taken eventually: a process that can run
\* runs, and a collective every process has entered completes
SpecLoopLive == SpecLoop /\ WF_vars(NextLoop)

(***************************************************************************)
(* Graph Collator.                                                         *)
(***************************************************************************)
\* the atom count of the k-th per-system graph and the atoms before it
GraphAtoms(k) == Len(batch[k].nums)
AtomsBefore(k) == SumSeq([q \in 1..(k - 1) |-> GraphAtoms(q)])
AtomCounts == [k \in DOMAIN batch |-> GraphAtoms(k)]

\* C1: the batch vector of the collated graphs has one entry per atom, the
\* entries of the k-th system are k-1, in input order; it never decreases,
\* the batched atom count is the sum of the per-system atom counts, and the
\* counts 1, 3, 6 give [0,1,1,1,2,2,2,2,2,2].
C1_BatchVector ==
    pc = "done" =>
        /\ Len(collated.batch) = SumSeq(AtomCounts)
        /\ Len(collated.central_species) = SumSeq(AtomCounts)
        /\ Len(collated.x) = SumSeq(AtomCounts)
        /\ \A k \in DOMAIN batch : \A a \in 1..GraphAtoms(k) :
              collated.batch[AtomsBefore(k) + a] = k - 1
        /\ \A p, q \in DOMAIN collated.batch :
              p <= q => collated.batch[p] <= collated.batch[q]
        /\ AtomCounts = <<1, 3, 6>>
              => collated.batch = <<0, 1, 1, 1, 2, 2, 2, 2, 2, 2>>

\* three systems of 1, 3 and 6 atoms have been collated
C1_Witness ==
    /\ pc = "done"
    /\ AtomCounts = <<1, 3, 6>>
    /\ Len(collated.batch) = 10

\* C2 as stated: after collating two graphs every reverse-edge pointer
\* (neighbors_pos) of the second system is n1 greater than before, and the
\* pointers of the first system are unchanged.
C2_NeighborsPosOffset ==
    (pc = "done" /\ Len(batch) = 2) =>
        /\ \A a \in 1..GraphAtoms(1) : \A k \in 1..max_num_neighbors :
              collated.neighbors_pos[a][k] = batch[1].neighbors_pos[a][k]
        /\ \A a \in 1..GraphAtoms(2) : \A k \in 1..max_num_neighbors :
              collated.neighbors_pos[GraphAtoms(1) + a][k]
                  = batch[2].neighbors_pos[a][k] + GraphAtoms(1)

\* C2 amended: after collating two graphs every neighbors_index entry of
\* the second system is n1 greater than before and those of the first
\* system are unchanged; the reverse-edge pointers neighbors_pos (slots of
\* a row) of both systems are unchanged.
C2_NeighborsIndexOffset ==
    (pc = "done" /\ Len(batch) = 2) =>
        /\ \A a \in 1..GraphAtoms(1) : \A k \in 1..max_num_neighbors :
              /\ collated.neighbors_index[a][k] = batch[1].neighbors_index[a][k]
              /\ collated.neighbors_pos[a][k] = batch[1].neighbors_pos[a][k]
        /\ \A a \in 1..GraphAtoms(2) : \A k \in 1..max_num_neighbors :
              /\ collated.neighbors_index[GraphAtoms(1) + a][k]
                    = batch[2].neighbors_index[a][k] + GraphAtoms(1)
              /\ collated.neighbors_pos[GraphAtoms(1) + a][k]
                    = batch[2].neighbors_pos[a][k]

\* two graphs have been collated and the second holds a non-zero reverse
\* pointer
C2_Witness ==
    /\ pc = "done"
    /\ Len(batch) = 2
    /\ \E a \in 1..GraphAtoms(2) : \E k \in 1..batch[2].nums[a] :
          /\ batch[2].neighbors_pos[a][k] > 0
          /\ collated.neighbors_pos[GraphAtoms(1) + a][k] = batch[2].neighbors_pos[a][k]

(***************************************************************************)
(* Index Remapper.                                                         *)
(***************************************************************************)
\* the union of the selected atoms and the centres of the pairs, and the
\* rank of an index in it
Touched(system) ==
    Range(system.selected_atoms_index)
        \cup {system.pairs[p].first_atom : p \in DOMAIN system.pairs}
Rank(system, x) == Cardinality({y \in Touched(system) : y < x})

\* C3: the remapper maps each index of the union of the selected atoms and
\* the centres to its rank in the sorted union: the images are exactly
\* 0..K-1, the map preserves the order and is injective, the sorted union
\* at the image is the original index, and the remapped first atoms and
\* centres are the ranks of the original ones.
C3_RemapDense ==
    pc \in {"remapped", "fast", "old"} =>
        LET system == systems[1]
            U == Touched(system)
            K == Cardinality(U)
        IN  /\ (U # {} /\ Range(j_list_of(system)) \subseteq U)
                  => remapped.status = "ok"
            /\ remapped.status = "ok" =>
                  /\ DOMAIN remapped.index_map = U
                  /\ \A x \in U : remapped.index_map[x] = Rank(system, x)
                  /\ {remapped.index_map[x] : x \in U} = 0..(K - 1)
                  /\ \A x, y \in U :
                        x < y => remapped.index_map[x] < remapped.index_map[y]
                  /\ \A x \in U : SortedSeq(U)[remapped.index_map[x] + 1] = x
                  /\ \A p \in DOMAIN system.pairs :
                        remapped.i_list[p] = Rank(system, system.pairs[p].first_atom)
                  /\ Range(remapped.unique_neighbors_index)
                        = {Rank(system, system.pairs[p].first_atom) :
                              p \in DOMAIN system.pairs}

\* a sparse index set with pairs has been remapped
C3_Witness ==
    /\ pc = "remapped"
    /\ remapped.status = "ok"
    /\ Len(systems[1].pairs) > 0
    /\ Touched(systems[1]) # 0..(Cardinality(Touched(systems[1])) - 1)

\* C4 as stated: for every pair record the remapped first and second atom
\* lie in 0..K-1, whether or not the second atom is selected or a centre.
C4_RemappedInRange ==
    (pc \in {"remapped", "fast", "old"} /\ Len(systems[1].pairs) > 0) =>
        /\ remapped.status = "ok"
        /\ \A p \in DOMAIN systems[1].pairs :
              /\ remapped.i_list[p] \in 0..(Cardinality(Touched(systems[1])) - 1)
              /\ remapped.j_list[p] \in 0..(Cardinality(Touched(systems[1])) - 1)

(***************************************************************************)
(* Neighbor-List Batcher.                                                  *)
(***************************************************************************)
\* C5 as stated: in the graph the reference path builds from a full
\* neighbor list, the reverse pointer p of a valid slot k of row i holding
\* neighbor j with shift s is a valid slot of row j; that slot holds i, and
\* following its own reverse pointer returns to k.
C5_ReverseEdges ==
    (pc = "old" /\ IsFull(systems[1]) /\ old.status = "ok") =>
        \A i \in DOMAIN old.nums : \A k \in 1..old.nums[i] :
            LET j == old.neighbors_index[i][k] + 1
                p == old.neighbors_pos[i][k] + 1
            IN  /\ p <= old.nums[j]
                /\ old.neighbors_index[j][p] = i - 1
                /\ old.neighbors_pos[j][p] = k - 1

\* every species of the system is in the vocabulary
KnownSpecies(system) ==
    \A a \in Touched(system) : system.types[a + 1] \in Range(all_species)

\* C6 as stated: for a system whose species are all in the vocabulary the
\* production path and the reference path return the same central_species,
\* neighbor_species, mask, nums and x, and the same reverse pointers in the
\* valid slots.
C6_PathsAgree ==
    (pc = "old" /\ KnownSpecies(systems[1])
        /\ old.status = "ok" /\ batch[1].status = "ok") =>
        /\ old.central_species = batch[1].central_species
        /\ old.neighbor_species = batch[1].neighbor_species
        /\ old.mask = batch[1].mask
        /\ old.nums = batch[1].nums
        /\ old.x = batch[1].x
        /\ \A a \in DOMAIN old.nums : \A k \in 1..old.nums[a] :
              old.neighbors_pos[a][k] = batch[1].neighbors_pos[a][k]

\* C7 as stated: with a species of the system absent from the vocabulary
\* the reference path returns no graph dictionary; with every species
\* present central_species holds the position of each atom's type in the
\* vocabulary.
C7_UnseenSpeciesFails ==
    pc = "old" =>
        /\ ~KnownSpecies(systems[1]) => old.status # "ok"
        /\ (KnownSpecies(systems[1]) /\ old.status = "ok") =>
              \A a \in DOMAIN old.central_species :
                  all_species[old.central_species[a] + 1]
                      = systems[1].types[SortedSeq(Touched(systems[1]))[a] + 1]

\* C8 as stated: the maximum-neighbors computation yields 0 when every
\* neighbor list is empty, and batching a system whose neighbor list is
\* empty never raises: its graph is built and every atom of it has a
\* neighbor count of zero.
C8_EmptyListsNeverCrash ==
    /\ (pc # "start" /\ \A n \in DOMAIN systems : Len(systems[n].pairs) = 0)
          => max_num_neighbors = 0
    /\ pc = "raised" => Len(systems[Len(batch) + 1].pairs) > 0
    /\ \A n \in DOMAIN batch :
          Len(systems[n].pairs) = 0 => \A a \in DOMAIN batch[n].nums : batch[n].nums[a] = 0

(***************************************************************************)
(* Gradient-Aware Evaluator.                                               *)
(***************************************************************************)
\* nothing of the call has happened yet: the model has not been invoked, no
\* system has been constructed and no position tensor has been marked
NothingDone ==
    /\ passed = NoResult
    /\ model_outputs = <<>>
    /\ new_systems = <<>>
    /\ strains = <<>>
    /\ \A n \in DOMAIN caller_systems : ~caller_systems[n].requires_grad

TargetsError == "ValueError: Not all targets are within the model's capabilities."
CellError ==
    "ValueError: One or more systems does not have a cell, but strain gradients were requested."

\* C9: whenever a requested target is absent from the model's declared
\* outputs the call raises the configuration error, before the model is
\* invoked and before any system is copied or marked; otherwise it does not
\* raise that error.
C9_UnknownTargetRejected ==
    epc # "start" =>
        /\ (\E name \in DOMAIN targets : name \notin DOMAIN model.outputs)
              => (epc = TargetsError /\ NothingDone)
        /\ epc = TargetsError
              => \E name \in DOMAIN targets : name \notin DOMAIN model.outputs

\* a call with one declared and one undeclared target has been rejected
C9_Witness ==
    /\ epc = TargetsError
    /\ \E name \in DOMAIN targets : name \in DOMAIN model.outputs
    /\ \E name \in DOMAIN targets : name \notin DOMAIN model.outputs
    /\ Len(caller_systems) > 0

\* some requested target the model declares as an energy asks for a strain
\* gradient
StrainRequested ==
    \E name \in DOMAIN targets :
        /\ name \in DOMAIN model.outputs
        /\ model.outputs[name] = "energy"
        /\ "strain" \in targets[name].gradients

HasZeroCell(system) == \A e \in 1..9 : system.cell[e] = 0

\* C10: once the systems are prepared, a call whose energy targets ask for
\* a strain gradient has raised the configuration error iff some system has
\* an all-zero cell, and then the model has not been invoked and no strain
\* or strained system has been created; no other call raises that error.
C10_StrainNeedsCell ==
    /\ (epc \in {"invoke", "gradients", "returned"} /\ StrainRequested)
          => \A n \in DOMAIN caller_systems : ~HasZeroCell(caller_systems[n])
    /\ epc = CellError
          => /\ StrainRequested
             /\ \E n \in DOMAIN caller_systems : HasZeroCell(caller_systems[n])
             /\ NothingDone

\* a strain request on a list holding a system with a cell and one without
\* has been rejected
C10_Witness ==
    /\ epc = CellError
    /\ \E n \in DOMAIN caller_systems : HasZeroCell(caller_systems[n])
    /\ \E n \in DOMAIN caller_systems : ~HasZeroCell(caller_systems[n])

\* C11: once the model has been called it was asked for exactly the
\* requested names, and the dictionary the call holds and returns has
\* exactly the requested names as keys.
C11_ExactlyRequestedNames ==
    epc \in {"gradients", "returned"} =>
        /\ passed.status = "called"
        /\ passed.outputs = DOMAIN targets
        /\ DOMAIN model_outputs = DOMAIN targets

\* a call requesting two targets, one of them with a gradient, has returned
C11_Witness ==
    /\ epc = "returned"
    /\ DOMAIN targets = TargetNames
    /\ \E name \in DOMAIN model_outputs : model_outputs[name].gradients # {}

\* the target is energy-like: the model declares it with quantity energy
EnergyLike(name) == model.outputs[name] = "energy"

\* C12: in the returned dictionary a target carries a positions gradient
\* block iff it is energy-like and declared a positions gradient, a strain
\* gradient block iff it is energy-like and declared a strain gradient;
\* every other output is the object the model returned, without gradient
\* blocks.
C12_GradientsOnlyWhereDeclared ==
    epc = "returned" =>
        \A name \in DOMAIN model_outputs :
            /\ \A g \in GradientNames :
                  g \in model_outputs[name].gradients
                      <=> (EnergyLike(name) /\ g \in targets[name].gradients)
            /\ (~EnergyLike(name) \/ targets[name].gradients = {})
                  => model_outputs[name] = [gradients |-> {}, from_model |-> TRUE]

\* two energy targets declaring different gradients have been evaluated
C12_Witness ==
    /\ epc = "returned"
    /\ DOMAIN targets = TargetNames
    /\ \A name \in TargetNames : EnergyLike(name)
    /\ \E name \in TargetNames : model_outputs[name].gradients = {"positions"}
    /\ \E name \in TargetNames : model_outputs[name].gradients = {}

(***************************************************************************)
(* Capability Reconciler.                                                  *)
(***************************************************************************)
\* the capability sets handed to the merge: the outputs stored with the
\* model and the requested ones
OldOutputs == loaded.checkpoint
NewOutputs == requested_capabilities(dataset_targets)
Merged == continue_from /\ spc = "ready"

\* C13: the merged outputs are the union of the two sets, each output as
\* the set holding it declares it, and the novel outputs are exactly the
\* outputs of the new set the old one lacks: none when the sets are equal,
\* exactly the new output when the new set is the old one plus one output.
C13_MergeUnionAndNovel ==
    Merged =>
        /\ DOMAIN model_capabilities = DOMAIN OldOutputs \cup DOMAIN NewOutputs
        /\ \A name \in DOMAIN OldOutputs : model_capabilities[name] = OldOutputs[name]
        /\ \A name \in DOMAIN NewOutputs : model_capabilities[name] = NewOutputs[name]
        /\ DOMAIN novel_capabilities = DOMAIN NewOutputs \ DOMAIN OldOutputs
        /\ \A name \in DOMAIN novel_capabilities :
              novel_capabilities[name] = NewOutputs[name]
        /\ added_outputs = DOMAIN NewOutputs \ DOMAIN OldOutputs
        /\ OldOutputs = NewOutputs
              => (novel_capabilities = <<>> /\ model_capabilities = OldOutputs)
        /\ \A name \in DOMAIN NewOutputs :
              OldOutputs = Restrict(NewOutputs, DOMAIN NewOutputs \ {name})
                  => DOMAIN novel_capabilities = {name}

\* a set has been merged with itself plus one new output
C13_Witness ==
    /\ Merged
    /\ DOMAIN OldOutputs = {"energy", LastLayerFeatures}
    /\ DOMAIN NewOutputs = OutputNames
    /\ DOMAIN novel_capabilities = {"mtm::aux::energy_2"}

\* C14: a merge of two sets that declare an output of the same name with
\* different quantities raises the configuration error: the model keeps
\* no merged and no novel set, no output is added, and both sets are what
\* they were; no merge, rejected or not, changes its arguments.
C14_IncompatibleRejected ==
    (continue_from /\ ~loaded.exported /\ spc \notin {"start", "requested"}) =>
        /\ Incompatible(OldOutputs, NewOutputs)
              => /\ spc = "ValueError"
                 /\ model_capabilities = <<>>
                 /\ novel_capabilities = <<>>
                 /\ added_outputs = {}
        /\ spc = "ValueError" => Incompatible(OldOutputs, NewOutputs)
        /\ loaded.capabilities = OldOutputs
        /\ new_capabilities = NewOutputs

\* a merge of sets that share two outputs and disagree on one has been
\* rejected
C14_Witness ==
    /\ spc = "ValueError"
    /\ continue_from
    /\ \E name \in TargetNames :
          /\ name \in DOMAIN OldOutputs \cap DOMAIN NewOutputs
          /\ OldOutputs[name] = "energy"
          /\ NewOutputs[name] = "dipole"
    /\ \E name \in DOMAIN OldOutputs \cap DOMAIN NewOutputs :
          OldOutputs[name] = NewOutputs[name]

(***************************************************************************)
(* Training Loop Orchestrator.                                             *)
(***************************************************************************)
\* n copies of x
Repeat(x, n) == [q \in 1..n |-> x]

\* the phases of one epoch
ExpectedPhases ==
    Repeat("train_batch", num_train_batches)
        \o Repeat("validation_batch", num_validation_batches)
        \o <<"scheduler_step", "checkpoint_decision", "early_stop_check">>

IsPrefix(a, b) == Len(a) <= Len(b) /\ a = SubSeq(b, 1, Len(a))

\* the process is between two epochs or has left the loop
BetweenEpochs(p) == tpc[p] \in {"epoch", "barrier_end", "returned"}

\* the process has left the loop through the break of the early stop
StoppedEarly(p) ==
    /\ tpc[p] \in {"barrier_end", "returned"}
    /\ last_check[p].done
    /\ last_check[p].stopped

\* the checkpoint decision of epoch e is behind process p
DecidedCheckpoint(p, e) ==
    \/ e < epoch[p]
    \/ e = epoch[p] /\ (tpc[p] = "early_stop" \/ StoppedEarly(p))

\* C15: in every epoch every process runs all the training batches, then
\* all the validation batches, then one scheduler step on the validation
\* loss of the epoch, then the checkpoint decision, then the early-stop
\* check, each once; the checkpoint of an epoch is written iff the epoch is
\* a multiple of the checkpoint interval; an epoch starts only after the
\* early-stop check of the epoch before it.
C15_PhasesInOrder ==
    \A p \in Procs :
        /\ IsPrefix(phase_log[p], ExpectedPhases)
        /\ (BetweenEpochs(p) /\ last_check[p].done) => phase_log[p] = ExpectedPhases
        /\ (tpc[p] \notin {"start", "NameError"} /\ epoch[p] > 0) => last_check[p].done
        /\ tpc[p] \in {"checkpoint", "barrier_checkpoint", "save", "early_stop"}
              => scheduler_input[p] = validation_loss[p]
        /\ \A e \in 0..hypers.num_epochs :
              LET written == [file |-> e, rank |-> p - 1] \in checkpoints
              IN  /\ written => (e % hypers.checkpoint_interval = 0 /\ e <= epoch[p])
                  /\ DecidedCheckpoint(p, e)
                        => (written <=> e % hypers.checkpoint_interval = 0)

\* two processes of train have run two epochs of two training batches and
\* one validation batch with a checkpoint interval of two
C15_Witness ==
    /\ impl = "train"
    /\ world_size = 2
    /\ num_train_batches = 2
    /\ num_validation_batches = 1
    /\ hypers.checkpoint_interval = 2
    /\ \A p \in Procs : tpc[p] = "epoch" /\ epoch[p] = 2
    /\ \A p \in Procs : phase_log[p] = ExpectedPhases
    /\ {w.file : w \in checkpoints} = {0}

\* C16: an early-stop check with a validation loss strictly below the best
\* so far sets the counter to zero and does not stop; any other check adds
\* one to the counter; the check stops training iff it did not improve and
\* the counter has reached the patience; a running loop has a counter
\* below the patience, and the best loss is the loss of the last improving
\* check.
C16_EarlyStopping ==
    \A p \in Procs :
        /\ last_check[p].done =>
              LET c == last_check[p]
                  strictly == ~c.best_before.finite \/ c.loss < c.best_before.value
              IN  /\ strictly => (c.counter_after = 0 /\ ~c.stopped)
                  /\ strictly => best_validation_loss[p] = [finite |-> TRUE, value |-> c.loss]
                  /\ ~strictly => c.counter_after = c.counter_before + 1
                  /\ ~strictly => best_validation_loss[p] = c.best_before
                  /\ c.stopped <=> (~strictly
                                      /\ c.counter_after >= hypers.early_stopping_patience)
                  /\ epochs_without_improvement[p] = c.counter_after
                  /\ c.stopped => tpc[p] \in {"barrier_end", "returned"}
        /\ (tpc[p] \notin {"start", "NameError", "barrier_end", "returned"})
              => epochs_without_improvement[p] < hypers.early_stopping_patience

\* a loop with patience two has stopped early in its third epoch, after two
\* epochs without improvement
C16_Witness ==
    \E p \in Procs :
        /\ StoppedEarly(p)
        /\ hypers.early_stopping_patience = 2
        /\ epoch[p] = 2
        /\ hypers.num_epochs > 2
        /\ last_check[p].counter_after = 2

\* every process has left train or Trainer.train
Terminated == \A p \in Procs : tpc[p] \in {"returned", "NameError"}

\* C17: the loop never runs more than num_epochs epochs, only the
\* early-stop check advances the epoch index, by one, and it does so
\* whenever the loop goes on (no epoch is repeated), and every run reaches
\* a terminal state: the epochs are exhausted, the early stop
\* fired, or an error was propagated.
C17_LoopTerminates ==
    /\ [](\A p \in Procs : epoch[p] <= hypers.num_epochs)
    /\ [][\A p \in Procs :
              /\ epoch'[p] # epoch[p]
                    => (epoch'[p] = epoch[p] + 1 /\ tpc[p] = "early_stop")
              /\ (tpc[p] = "early_stop" /\ tpc'[p] = "epoch")
                    => epoch'[p] = epoch[p] + 1]_vars
    /\ <>[]Terminated

\* two processes of train have returned after an early stop before the
\* last epoch
C17_Witness ==
    /\ impl = "train"
    /\ world_size = 2
    /\ \A p \in Procs : tpc[p] = "returned" /\ StoppedEarly(p)
    /\ \A p \in Procs : epoch[p] + 1 < hypers.num_epochs

\* the sum over the processes of the loss of batch b of the pass
CrossProcessLoss(pass, b) ==
    SumSeq([q \in Procs |-> local_losses[q][pass][b]])

\* the processes are in the same epoch and have computed the batches 1..n
\* of the pass
Comparable(pass, n) ==
    /\ \A q, r \in Procs : epoch[q] = epoch[r]
    /\ \A q \in Procs : Len(local_losses[q][pass]) >= n

\* C18 as stated: in both loops the running training and validation loss
\* of a process is the sum, over the batches it has accumulated, of the
\* loss of the batch summed over all processes.
C18_LossAddedOnce ==
    \A p \in Procs :
        /\ (tpc[p] = "train" /\ Comparable("train", batch_no[p]))
              => train_loss[p]
                    = SumSeq([b \in 1..batch_no[p] |-> CrossProcessLoss("train", b)])
        /\ (tpc[p] = "validation" /\ Comparable("validation", batch_no[p]))
              => validation_loss[p]
                    = SumSeq([b \in 1..batch_no[p] |-> CrossProcessLoss("validation", b)])

\* C19 as stated: no two processes write the same checkpoint file.
C19_SingleCheckpointWriter ==
    \A v, w \in checkpoints : v.file = w.file => v.rank = w.rank

\* the training pass, the validation pass of epoch e is behind process q
FinishedValidation(q, e) ==
    \/ epoch[q] > e
    \/ /\ epoch[q] = e
       /\ tpc[q] \in {"checkpoint", "barrier_checkpoint", "save", "early_stop",
                      "barrier_end", "returned"}

FinishedTraining(q, e) ==
    \/ FinishedValidation(q, e)
    \/ /\ epoch[q] = e
       /\ tpc[q] \in {"barrier_validation", "validation", "validation_reduce",
                      "validation_accumulate"}

\* process p is in the validation pass of its epoch
InValidation(p) ==
    \/ tpc[p] \in {"validation_reduce", "validation_accumulate"}
    \/ tpc[p] = "validation" /\ batch_no[p] > 0

\* C20 as stated: in distributed mode no process is in the validation pass
\* of an epoch before every process has finished the training pass of that
\* epoch, and no checkpoint of an epoch is written before every process has
\* finished the validation pass of that epoch.
C20_BarriersSeparatePhases ==
    hypers.distributed =>
        /\ \A p, q \in Procs : InValidation(p) => FinishedTraining(q, epoch[p])
        /\ \A w \in checkpoints : \A q \in Procs : FinishedValidation(q, w.file)

(***************************************************************************)
(* Continuing from a checkpoint, composition weights.                      *)
(***************************************************************************)

\* the hyperparameters given differ from the ones of the loaded model in
\* a key other than restart
HypersChanged == filtered(hypers_model) # filtered(loaded.hypers)

\* C21: once train, continuing from a checkpoint that is not exported, is
\* past the comparison of the hyperparameters, changed hyperparameters
\* have stopped it: no capabilities are merged, no output is added, no
\* later step is reached, and the change has not been logged as a warning
\* instead.
C21_ChangedHypersRejected ==
    (continue_from /\ ~loaded.exported /\ HypersChanged
        /\ spc \notin {"start", "requested"}) =>
        /\ spc \notin {"ready", "checked", "weights_set"}
        /\ model_capabilities = <<>>
        /\ added_outputs = {}
        /\ \A i \in DOMAIN warnings : warnings[i] # HypersWarning

\* the outputs whose name holds "mtm::aux::"
AuxiliaryOutputs == OutputNames \ {"energy"}

\* the outputs whose composition weights train has set
WeightsSet == {name \in DOMAIN composition_weights :
                  composition_weights[name] \in {"fixed", "computed"}}

Records(arrays) ==
    [p \in DOMAIN arrays.i_list |->
        <<arrays.i_list[p], arrays.j_list[p], arrays.S_list[p], arrays.D_list[p]>>]

Occurrences(records, r) == Cardinality({p \in DOMAIN records : records[p] = r})

\* C22: in either per-system batcher the arrays after the sort hold the
\* pair records of the arrays before it, each as often as before, with
\* non-decreasing first atoms, and the records of one first atom are in
\* the order they had before: the four arrays are permuted together by a
\* stable sort on the remapped first atom.
C22_StableSortOfPairs ==
    (pc \in {"fast", "old"} /\ sorted.status = "ok") =>
        LET before == Records(sorted.before)
            after == Records(sorted.after)
        IN  /\ Len(after) = Len(before)
            /\ \A p \in DOMAIN after : \A q \in DOMAIN after :
                  p < q => after[p][1] <= after[q][1]
            /\ \A r \in Range(before) \cup Range(after) :
                  Occurrences(after, r) = Occurrences(before, r)
            /\ \E index \in [DOMAIN before -> DOMAIN before] :
                  /\ \A p \in DOMAIN after : after[p] = before[index[p]]
                  /\ \A p \in DOMAIN after : \A q \in DOMAIN after :
                        p < q => /\ index[p] # index[q]
                                 /\ before[index[p]][1] = before[index[q]][1]
                                       => index[p] < index[q]

\* the reference path has sorted a list that held two records of one
\* first atom with a record of a larger first atom between them
C22_Witness ==
    /\ pc = "old"
    /\ sorted.status = "ok"
    /\ \E p, q, r \in DOMAIN sorted.before.i_list :
          /\ p < q
          /\ q < r
          /\ sorted.before.i_list[p] = sorted.before.i_list[r]
          /\ sorted.before.i_list[q] > sorted.before.i_list[p]
          /\ sorted.before.j_list[p] # sorted.before.j_list[r]

\* the positions of the sorted records whose first atom is a, ascending
RecordsOf(a) == SortedSeq({p \in DOMAIN sorted.after.i_list : sorted.after.i_list[p] = a})

\* C23: a graph of the reference path has one row per atom of the union
\* of the selected atoms and the pair centres; nums[a] is the number of
\* pair records whose remapped first atom is a, and the first nums[a]
\* slots of row a of neighbors_index and of x hold the second atoms and
\* the displacements of those records, in sorted order.
C23_ReferenceRows ==
    (pc = "old" /\ old.status = "ok") =>
        LET K == Cardinality(Touched(systems[1]))
        IN  /\ Len(old.nums) = K
            /\ Len(old.neighbors_index) = K
            /\ Len(old.x) = K
            /\ \A a \in 0..(K - 1) :
                  /\ old.nums[a + 1] = Len(RecordsOf(a))
                  /\ \A k \in 1..Len(RecordsOf(a)) :
                        /\ k <= max_num_neighbors
                        /\ old.neighbors_index[a + 1][k]
                              = sorted.after.j_list[RecordsOf(a)[k]]
                        /\ old.x[a + 1][k] = sorted.after.D_list[RecordsOf(a)[k]]

\* the mask of a graph marks the slots from nums[a] on, and only them
MaskAgrees(graph) ==
    \A a \in DOMAIN graph.mask : \A k \in DOMAIN graph.mask[a] :
        graph.mask[a][k] <=> (k - 1 >= graph.nums[a])

\* C24: in every graph built, by the production path, by the reference
\* path or by the collation, every row of the mask has max_num_neighbors
\* slots and a slot is masked iff its number is at least nums of its
\* atom.
C24_MaskAgreesWithNums ==
    /\ \A k \in DOMAIN batch :
          batch[k].status = "ok" =>
              /\ MaskAgrees(batch[k])
              /\ Len(batch[k].mask) = Len(batch[k].nums)
              /\ \A a \in DOMAIN batch[k].mask :
                    Len(batch[k].mask[a]) = max_num_neighbors
    /\ old.status = "ok" =>
          /\ MaskAgrees(old)
          /\ Len(old.mask) = Len(old.nums)
          /\ \A a \in DOMAIN old.mask : Len(old.mask[a]) = max_num_neighbors
    /\ pc = "done" =>
          /\ MaskAgrees(collated)
          /\ Len(collated.mask) = Len(collated.nums)

\* C25: in a collated batch the neighbors_index entries of system k,
\* padding included, are the entries of its graph plus the number of
\* atoms of the systems before it, lie in the index range of system k and
\* name atoms whose batch value is k; central_species, x,
\* neighbor_species, nums and mask are the rows of the graphs, in input
\* order and unchanged; the graphs handed in are what the batcher built.
C25_CollateOffsets ==
    pc = "done" =>
        /\ Len(collated.neighbors_index) = SumSeq(AtomCounts)
        /\ \A key \in {"central_species", "x", "neighbor_species", "nums", "mask"} :
              Len(collated[key]) = SumSeq(AtomCounts)
        /\ \A k \in DOMAIN batch :
              /\ batch[k] = get_system_batch_dict(systems[k], max_num_neighbors, <<>>)
              /\ \A a \in 1..GraphAtoms(k) :
                    /\ \A slot \in 1..max_num_neighbors :
                          LET entry == collated.neighbors_index[AtomsBefore(k) + a][slot]
                          IN  /\ entry = batch[k].neighbors_index[a][slot] + AtomsBefore(k)
                              /\ entry >= AtomsBefore(k)
                              /\ entry < AtomsBefore(k) + GraphAtoms(k)
                              /\ collated.batch[entry + 1] = k - 1
                    /\ \A key \in {"central_species", "x", "neighbor_species",
                                   "nums", "mask"} :
                          collated[key][AtomsBefore(k) + a] = batch[k][key][a]

\* three systems have been collated, the first a chain of two atoms, the
\* second a chain of three whose end atoms have a padded slot
C25_Witness ==
    /\ pc = "done"
    /\ Len(batch) = 3
    /\ batch[1].nums = <<1, 1>>
    /\ batch[2].nums = <<1, 2, 1>>
    /\ max_num_neighbors = 2
    /\ collated.neighbors_index[3] = <<3, 2>>
    /\ collated.neighbors_index[4] = <<2, 4>>

(***************************************************************************)
(* Gradient blocks and the systems of the caller.                          *)
(***************************************************************************)
\* the systems the model was evaluated on
EvaluatedSystems ==
    IF passed.systems = "new_systems" THEN new_systems ELSE caller_systems

\* the labels (system, atom) of all atoms, system by system
AtomLabels ==
    Cat([k \in DOMAIN EvaluatedSystems |->
            [a \in 1..Len(EvaluatedSystems[k].types) |-> <<k - 1, a - 1>>]])

\* C26: in the returned dictionary the positions gradient block of a
\* target has one row per atom of all systems, labelled (system, atom) in
\* input order with the atoms of a system counted from 0, row (k, a) being
\* row a of the gradient with respect to the positions of system k, and
\* one xyz component; the strain gradient block has one row per system,
\* labelled 0..m-1, row k being the gradient with respect to the strain of
\* system k, and two xyz components; this also holds when the target has
\* both blocks.
C26_GradientBlockLabels ==
    epc = "returned" =>
        \A name \in DOMAIN gradient_blocks :
            /\ DOMAIN gradient_blocks[name] = model_outputs[name].gradients
            /\ "positions" \in DOMAIN gradient_blocks[name] =>
                  LET block == gradient_blocks[name].positions
                  IN  /\ block.samples = AtomLabels
                      /\ Len(block.values) = Len(AtomLabels)
                      /\ \A r \in DOMAIN block.values :
                            /\ block.values[r].gradient.gradient_of.wrt = "positions"
                            /\ block.values[r].gradient.gradient_of.system
                                  = block.samples[r][1]
                            /\ block.values[r].row = block.samples[r][2]
                      /\ \A r \in 1..(Len(block.samples) - 1) :
                            block.samples[r][1] <= block.samples[r + 1][1]
                      /\ block.components = <<<<0, 1, 2>>>>
            /\ "strain" \in DOMAIN gradient_blocks[name] =>
                  LET block == gradient_blocks[name].strain
                  IN  /\ block.samples = [k \in DOMAIN EvaluatedSystems |-> <<k - 1>>]
                      /\ \A r \in DOMAIN block.values :
                            /\ block.values[r].gradient.gradient_of.wrt = "strain"
                            /\ block.values[r].gradient.gradient_of.system = r - 1
                      /\ block.components = <<<<0, 1, 2>>, <<0, 1, 2>>>>

\* a target with both gradients has been evaluated on a molecule of two
\* atoms followed by a single atom
C26_Witness ==
    /\ epc = "returned"
    /\ Len(caller_systems) = 2
    /\ Len(caller_systems[1].types) = 2
    /\ Len(caller_systems[2].types) = 1
    /\ \E name \in DOMAIN gradient_blocks :
          /\ DOMAIN gradient_blocks[name] = {"positions", "strain"}
          /\ gradient_blocks[name].positions.samples = <<<<0, 0>>, <<0, 1>>, <<1, 0>>>>
          /\ gradient_blocks[name].strain.samples = <<<<0>>, <<1>>>>

\* fresh systems are built: strain gradients are required, or position
\* gradients are and the model is not exported
FreshSystems ==
    \/ classified.energy_targets_that_require_strain_gradients # {}
    \/ /\ classified.energy_targets_that_require_position_gradients # {}
       /\ ~model.exported

\* C27: no step of evaluate_model changes the number, the atoms (types),
\* the cell or the neighbor-list keys of the caller's systems, and the
\* gradient flag of a caller's system changes only in the step that marks
\* the positions in place for an exported model with position gradients
\* only.  Once the systems are prepared: when fresh systems are built
\* there is one per caller's system with its types and neighbor-list
\* keys, gradient-tracked, the caller's flags are as they were and the
\* model is evaluated on the fresh ones; otherwise nothing is built and
\* the model is evaluated on the caller's systems, marked exactly when
\* position gradients are required.
C27_CallerSystemsKept ==
    /\ [][/\ Len(caller_systems') = Len(caller_systems)
          /\ \A n \in DOMAIN caller_systems :
                /\ caller_systems'[n].types = caller_systems[n].types
                /\ caller_systems'[n].cell = caller_systems[n].cell
                /\ caller_systems'[n].known_neighbor_lists
                      = caller_systems[n].known_neighbor_lists
                /\ caller_systems'[n].requires_grad # caller_systems[n].requires_grad
                      => /\ epc = "prepare"
                         /\ model.exported
                         /\ ~FreshSystems
                         /\ classified.energy_targets_that_require_position_gradients
                               # {}]_vars
    /\ [](epc \in {"invoke", "gradients", "returned", "RuntimeError"} =>
            /\ FreshSystems =>
                  /\ Len(new_systems) = Len(caller_systems)
                  /\ \A n \in DOMAIN caller_systems :
                        /\ new_systems[n].types = caller_systems[n].types
                        /\ new_systems[n].known_neighbor_lists
                              = caller_systems[n].known_neighbor_lists
                        /\ new_systems[n].requires_grad
                        /\ ~caller_systems[n].requires_grad
            /\ ~FreshSystems =>
                  /\ new_systems = <<>>
                  /\ \A n \in DOMAIN caller_systems :
                        caller_systems[n].requires_grad
                            <=> classified.energy_targets_that_require_position_gradients
                                   # {}
            /\ epc # "invoke" =>
                  passed.systems = IF FreshSystems THEN "new_systems"
                                   ELSE "caller_systems")

\* a model that is not exported has been evaluated with position
\* gradients on fresh copies of two systems
C27_Witness ==
    /\ epc = "returned"
    /\ ~model.exported
    /\ classified.energy_targets_that_require_position_gradients # {}
    /\ classified.energy_targets_that_require_strain_gradients = {}
    /\ Len(caller_systems) = 2
    /\ passed.systems = "new_systems"
    /\ \A n \in DOMAIN caller_systems :
          /\ ~caller_systems[n].requires_grad
          /\ new_systems[n].known_neighbor_lists = {"full_list"}

(***************************************************************************)
(* The processes of a distributed training.                                *)
(***************************************************************************)
\* the epochs whose checkpoint process p has written
Written(p) == {w.file : w \in {v \in checkpoints : v.rank = p - 1}}

Running(p) == tpc[p] \notin {"returned", "NameError"}

\* C28: in distributed mode, with the same number of batches on every
\* process: processes waiting in a barrier wait in the same barrier of
\* the same epoch, and processes waiting in an all-reduce in the same
\* pass of the same batch of the same epoch; processes that have made the
\* early-stop check of the same number of epochs have made the same
\* checks, hold the same best loss and counter, and have written the
\* same checkpoints; as long as a process runs some step can be taken,
\* so none waits for a process that never arrives; and when all have
\* returned they have left the loop after the same epoch, all by the
\* early stop or none.
C28_ProcessesInStep ==
    hypers.distributed =>
        /\ \A p \in Procs : \A q \in Procs :
              /\ (tpc[p] \in BarrierSites /\ tpc[q] \in BarrierSites)
                    => (tpc[p] = tpc[q] /\ epoch[p] = epoch[q])
              /\ (tpc[p] \in {"train_reduce", "validation_reduce"}
                     /\ tpc[q] \in {"train_reduce", "validation_reduce"})
                    => /\ tpc[p] = tpc[q]
                       /\ epoch[p] = epoch[q]
                       /\ batch_no[p] = batch_no[q]
              /\ (BetweenEpochs(p) /\ BetweenEpochs(q) /\ epoch[p] = epoch[q]
                     /\ StoppedEarly(p) = StoppedEarly(q))
                    => /\ last_check[p] = last_check[q]
                       /\ best_validation_loss[p] = best_validation_loss[q]
                       /\ epochs_without_improvement[p] = epochs_without_improvement[q]
                       /\ Written(p) = Written(q)
              /\ (tpc[p] = "returned" /\ tpc[q] = "returned")
                    => (epoch[p] = epoch[q] /\ StoppedEarly(p) = StoppedEarly(q))
              /\ (tpc[p] = "returned" /\ Running(q))
                    => tpc[q] \notin BarrierSites
                                        \cup {"train_reduce", "validation_reduce"}
        /\ (\E p \in Procs : Running(p)) => ENABLED NextLoop

\* two processes of train have returned after stopping early in the same
\* epoch, the second one, each having written the checkpoint of epoch 0
C28_Witness ==
    /\ hypers.distributed
    /\ impl = "train"
    /\ world_size = 2
    /\ num_train_batches = 1
    /\ num_validation_batches = 1
    /\ \A p \in Procs :
          /\ tpc[p] = "returned"
          /\ StoppedEarly(p)
          /\ epoch[p] = 1
          /\ Written(p) = {0}

(***************************************************************************)
(* The early-stopping state over the epochs.                               *)
(***************************************************************************)
MinOf(S) == CHOOSE x \in S : \A y \in S : x <= y

\* the epochs (1-based) whose validation loss was below all earlier ones
Lowering(H) == {i \in DOMAIN H : \A j \in 1..(i - 1) : H[i] < H[j]}

\* process p is inside an epoch
InEpoch(p) ==
    tpc[p] \notin {"start", "epoch", "barrier_end", "returned", "NameError"}

\* C29: on every process, after the early-stop checks of the epochs run
\* so far, best_validation_loss is infinite if no epoch has been run and
\* else the least validation loss of these epochs, and
\* epochs_without_improvement is the number of epochs run since the last
\* epoch whose loss was strictly below all earlier ones (0 if no epoch
\* has been run); inside an epoch, and before an epoch that is going to
\* start, epochs_without_improvement is below the patience.
C29_BestLossAndCounter ==
    \A p \in Procs :
        LET H == validation_history[p]
        IN  /\ H = <<>> => (best_validation_loss[p] = Inf
                               /\ epochs_without_improvement[p] = 0)
            /\ H # <<>> =>
                  /\ best_validation_loss[p].finite
                  /\ best_validation_loss[p].value = MinOf(Range(H))
                  /\ epochs_without_improvement[p] = Len(H) - MaxOf(Lowering(H))
            /\ (InEpoch(p) \/ (tpc[p] = "epoch" /\ epoch[p] < hypers.num_epochs))
                  => epochs_without_improvement[p] < hypers.early_stopping_patience

\* a process has run three epochs, the second lowering the loss of the
\* first and the third exceeding it, without reaching a patience of two
C29_Witness ==
    \E p \in Procs :
        /\ Len(validation_history[p]) = 3
        /\ validation_history[p][2] < validation_history[p][1]
        /\ validation_history[p][3] > validation_history[p][2]
        /\ epochs_without_improvement[p] = 1
        /\ best_validation_loss[p].value = validation_history[p][2]
        /\ hypers.early_stopping_patience = 2

=============================================================================
